---------------------------- MODULE Spec2Model ----------------------------
(***************************************************************************)
(* Model of the image matching engine of src/main.py: the descriptor       *)
(* scorer (ImageMatcher.calculate_similarity), the three search strategies *)
(* (_search_sequential, _search_parallel, _search_with_annoy), the         *)
(* selection between them (search_similar_images) and the configuration    *)
(* endpoint (update_performance_config).                                   *)
(*                                                                         *)
(* Numbers.  Scores are Python floats in the source; here a score s is     *)
(* the integer s * ScoreDen, which is exact for every score the bounded    *)
(* inputs can produce.  Thresholds are integers in hundredths.  Annoy's    *)
(* angular distance is kept in hundredths (0..200), rounded down.          *)
(***************************************************************************)
EXTENDS Integers, Sequences, FiniteSets, TLC

VARIABLES
    config,                     \* the tunables of ImageMatcher.__init__
    database_features,          \* ordered dict image_path -> descriptors
    database_metadata,          \* ordered dict image_path -> metadata
    annoy_index,                \* NoIndex, or the items of the AnnoyIndex
    annoy_id_to_image,          \* str(annoy_id) -> image_path
    annoy_id_to_descriptor_idx, \* str(annoy_id) -> desc_idx
    query_descriptors,          \* the descriptors extracted from the query
    db_descriptors,             \* second argument of a direct scorer call
    similarity,                 \* result of a direct scorer call
    top_k,                      \* top_k of the running search
    pc,                         \* position of the request being served
    futures,                    \* future_to_batch: one record per batch
    all_results,                \* all_results of _search_parallel
    pending_future,             \* position of the cancelling loop, 0 outside it
    image_scores,               \* image_scores of _search_with_annoy
    top_candidates,             \* top_candidates of _search_with_annoy
    candidate,                  \* position of the loop over top_candidates
    refined_results,            \* refined_results of _search_with_annoy
    results,                    \* the list the search returned
    search_method,              \* the strategy search_similar_images chose
    request,                    \* query parameters of the last config POST
    config_before,              \* config when the last request arrived
    response,                   \* HTTP status of the last request, 0 before any
    collection,                 \* the directory database_path and its images
    features_cache_file,        \* features_cache.pkl
    metadata_cache_file,        \* metadata_cache.json
    annoy_index_file,           \* annoy_index.ann
    annoy_mapping_file,         \* annoy_mapping.json
    operation                   \* the last lifecycle operation and its outcome

matcherVars == <<config, database_features, database_metadata, annoy_index,
                 annoy_id_to_image, annoy_id_to_descriptor_idx>>
scorerVars  == <<db_descriptors, similarity>>
searchVars  == <<query_descriptors, top_k, pc, futures, all_results, pending_future, results,
                 search_method>>
hybridVars  == <<image_scores, top_candidates, candidate, refined_results>>
httpVars    == <<request, config_before, response>>
diskVars    == <<features_cache_file, metadata_cache_file, annoy_index_file,
                 annoy_mapping_file>>
envVars     == <<collection, diskVars, operation>>
vars == <<matcherVars, scorerVars, searchVars, hybridVars, httpVars, envVars>>

None == "None"
\* annoy_index = None
NoIndex == [built |-> FALSE]
\* the empty dict
EmptyDict == <<>>

---------------------------------------------------------------------------
(* Bounds of the model *)

\* most descriptors in one descriptor set
MaxDesc == 2
\* most images in the Descriptor Store
MaxImages == 11
\* most query parameters carried by one config POST
MaxFields == 2

---------------------------------------------------------------------------
(* Program constants *)

descriptor_dim == 32
ExcellentDistance == 25
GoodDistance == 40
DecentDistance == 60
DistanceNorm == 80

---------------------------------------------------------------------------
(* Arithmetic helpers *)

Min(a, b) == IF a <= b THEN a ELSE b
Max(a, b) == IF a >= b THEN a ELSE b

RECURSIVE Gcd(_, _)
Gcd(a, b) == IF b = 0 THEN a ELSE Gcd(b, a % b)

RECURSIVE LcmUpTo(_)
LcmUpTo(n) == IF n <= 1 THEN 1
              ELSE LET l == LcmUpTo(n - 1) IN (l * n) \div Gcd(l, n)

\* calculate_similarity divides by 3 * total_features, by 80 * len(good)
\* and by tenths: every value it returns is a multiple of 1 / SimDen.
SimDen == 2400 * LcmUpTo(MaxDesc)
\* The hybrid score adds tenths of a mean over at most MaxDesc * MaxDesc
\* Annoy similarities, each a multiple of 1/200 (200 divides SimDen).
ScoreDen == 10 * SimDen * LcmUpTo(MaxDesc * MaxDesc)

\* a threshold given in hundredths, in score units
Pct(p) == p * (ScoreDen \div 100)

RECURSIVE SeqSum(_)
SeqSum(s) == IF s = <<>> THEN 0 ELSE Head(s) + SeqSum(Tail(s))

---------------------------------------------------------------------------
(* Descriptors: 32 bytes each.  The model's descriptors are the            *)
(* descriptors whose first k bits (least significant bit first within a   *)
(* byte) are set; a descriptor is written as that k.                       *)

DescriptorPool == {40, 60, 75, 130, 250}

DescriptorBytes(k) ==
    [i \in 1..descriptor_dim |->
        IF 8 * i <= k THEN 255
        ELSE IF 8 * (i - 1) < k THEN 2 ^ (k - 8 * (i - 1)) - 1
        ELSE 0]

RECURSIVE PopCountXor(_, _, _)
PopCountXor(a, b, bits) ==
    IF bits = 0 THEN 0
    ELSE (IF a % 2 # b % 2 THEN 1 ELSE 0)
         + PopCountXor(a \div 2, b \div 2, bits - 1)

\* cv2.NORM_HAMMING between two descriptors
NormHamming(x, y) ==
    LET bx == DescriptorBytes(x)
        by == DescriptorBytes(y)
    IN  SeqSum([i \in 1..descriptor_dim |-> PopCountXor(bx[i], by[i], 8)])

HammingTable == [x \in DescriptorPool, y \in DescriptorPool |-> NormHamming(x, y)]

Distance(x, y) == HammingTable[x, y]


---------------------------------------------------------------------------
(* cv2.BFMatcher(cv2.NORM_HAMMING, crossCheck=True).match(query, train)    *)
(* Every train descriptor points to its nearest query descriptor (the      *)
(* first one among equals); a query descriptor is matched to the nearest   *)
(* train descriptor that points to it (the first one among equals).        *)
(* Matches come out in query order.                                        *)

\* the first index of xs at the least distance from y
ArgNearest(xs, y) ==
    CHOOSE i \in 1..Len(xs) : \A k \in 1..Len(xs) :
        \/ Distance(xs[i], y) < Distance(xs[k], y)
        \/ Distance(xs[i], y) = Distance(xs[k], y) /\ i <= k

\* the train descriptors whose nearest query descriptor is query[i]
Pointing(query, train, i) ==
    {j \in 1..Len(train) : ArgNearest(query, train[j]) = i}

\* among the train descriptors pointing to x, the first at the least
\* distance from it
NearestPointing(x, train, pointing) ==
    CHOOSE c \in pointing : \A o \in pointing :
        \/ Distance(x, train[c]) < Distance(x, train[o])
        \/ Distance(x, train[c]) = Distance(x, train[o]) /\ c <= o

\* the DMatch of query[i] and train[j] (indices from 1 here)
DMatch(query, train, i, j) ==
    [queryIdx |-> i, trainIdx |-> j, distance |-> Distance(query[i], train[j])]

\* the match of query[i], if any train descriptor points to it
MatchOf(query, train, i, pointing) ==
    IF pointing = {} THEN <<>>
    ELSE <<DMatch(query, train, i, NearestPointing(query[i], train, pointing))>>

RECURSIVE MatchFrom(_, _, _)
MatchFrom(query, train, i) ==
    IF i > Len(query) THEN <<>>
    ELSE MatchOf(query, train, i, Pointing(query, train, i))
         \o MatchFrom(query, train, i + 1)

\* variant of BFMatchCrossCheck without the cross check: every query
\* descriptor is matched to its nearest train descriptor; used to measure
\* the sensitivity of C31
BFMatchNearest(query, train) ==
    [i \in 1..Len(query) |-> DMatch(query, train, i, ArgNearest(train, query[i]))]

BFMatchCrossCheck(query, train) == MatchFrom(query, train, 1)

\* sorted(matches, key=lambda x: x.distance): stable, ascending
RECURSIVE InsertByDistance(_, _)
InsertByDistance(sorted, m) ==
    IF sorted = <<>> THEN <<m>>
    ELSE IF m.distance < Head(sorted).distance THEN <<m>> \o sorted
    ELSE <<Head(sorted)>> \o InsertByDistance(Tail(sorted), m)

RECURSIVE SortByDistance(_)
SortByDistance(ms) ==
    IF ms = <<>> THEN <<>>
    ELSE InsertByDistance(SortByDistance(SubSeq(ms, 1, Len(ms) - 1)), ms[Len(ms)])

---------------------------------------------------------------------------
(* ImageMatcher.calculate_similarity, in units of 1 / ScoreDen *)

\* [m for m in matches if m.distance < limit]
MatchesBelow(matches, limit) == SelectSeq(matches, LAMBDA m : m.distance < limit)

\* quality_score * 0.5
QualityPart(excellent, good, decent, total_features) ==
    (ScoreDen \div (60 * total_features)) * (10 * excellent + 7 * good + 4 * decent)

\* sum(m.distance for m in good_matches)
RECURSIVE DistanceSum(_)
DistanceSum(ms) == IF ms = <<>> THEN 0 ELSE Head(ms).distance + DistanceSum(Tail(ms))

\* distance_score * 0.3, where distance_score = max(0, (80 - avg_distance) / 80)
DistancePart(good_matches) ==
    IF Len(good_matches) > 0
    THEN (ScoreDen \div (10 * DistanceNorm * Len(good_matches)))
         * 3 * Max(0, DistanceNorm * Len(good_matches) - DistanceSum(good_matches))
    ELSE 0

\* coverage_score * 0.2
CoveragePart(decent, total_features) ==
    (ScoreDen \div (5 * total_features)) * decent

\* variant of ExcellentBonus without the cap of a tenth, used to measure the
\* sensitivity of C36
ExcellentBonusUncapped(excellent, total_features) ==
    IF 10 * excellent > total_features
    THEN (ScoreDen \div (5 * total_features)) * excellent
    ELSE 0

\* excellent_bonus: min(excellent_ratio * 0.2, 0.1) when excellent_ratio > 0.1
ExcellentBonus(excellent, total_features) ==
    IF 10 * excellent > total_features
    THEN Min((ScoreDen \div (5 * total_features)) * excellent, ScoreDen \div 10)
    ELSE 0

\* variant of FinalScore without the cap of the bonus and without the
\* final clamp, used to measure the sensitivity of C2
FinalScoreUncapped(excellent_matches, good_matches, decent_matches, total_features) ==
    QualityPart(Len(excellent_matches), Len(good_matches),
                Len(decent_matches), total_features)
    + DistancePart(good_matches)
    + CoveragePart(Len(decent_matches), total_features)
    + (IF 10 * Len(excellent_matches) > total_features
       THEN (ScoreDen \div (5 * total_features)) * Len(excellent_matches)
       ELSE 0)

\* lines 412-447: final_score of the three tiers, clamped
FinalScore(excellent_matches, good_matches, decent_matches, total_features) ==
    Min(QualityPart(Len(excellent_matches), Len(good_matches),
                    Len(decent_matches), total_features)
        + DistancePart(good_matches)
        + CoveragePart(Len(decent_matches), total_features)
        + ExcellentBonus(Len(excellent_matches), total_features),
        ScoreDen)

\* lines 401-447: the score of the sorted matches
ScoreOfMatches(matches, total_features) ==
    IF Len(matches) = 0 THEN 0
    ELSE FinalScore(MatchesBelow(matches, ExcellentDistance),
                    MatchesBelow(matches, GoodDistance),
                    MatchesBelow(matches, DecentDistance),
                    total_features)

\* variant of calculate_similarity that takes the number of query descriptors
\* for total_features, used to measure the sensitivity of C39
calculate_similarity_per_query(descriptors1, descriptors2) ==
    IF Len(descriptors1) = 0 \/ Len(descriptors2) = 0 THEN 0
    ELSE ScoreOfMatches(SortByDistance(BFMatchCrossCheck(descriptors1, descriptors2)),
                        Len(descriptors1))

calculate_similarity(descriptors1, descriptors2) ==
    IF Len(descriptors1) = 0 \/ Len(descriptors2) = 0 THEN 0
    ELSE ScoreOfMatches(SortByDistance(BFMatchCrossCheck(descriptors1, descriptors2)),
                        Min(Len(descriptors1), Len(descriptors2)))

\* every descriptor set of at most MaxDesc descriptors of the pool
DescriptorSets == UNION {[1..n -> DescriptorPool] : n \in 0..MaxDesc}

SimilarityTable ==
    [d1 \in DescriptorSets, d2 \in DescriptorSets |-> calculate_similarity(d1, d2)]

\* a stored descriptor set whose rows are not descriptors of descriptor_dim
\* bytes, as a cache file written by another extractor holds them
Malformed == <<-1>>

\* line 399: self.matcher.match raises on rows of another width or type
MatchRaises(descriptors1, descriptors2) == Malformed \in {descriptors1, descriptors2}

\* the scorer applied to a query and a stored descriptor set; an exception
\* raised in the try block is logged and 0.0 is returned (lines 449-451)
Score(q, d) == IF MatchRaises(q, d) THEN 0 ELSE SimilarityTable[q, d]

---------------------------------------------------------------------------
(* The Descriptor Store: database_features and database_metadata are       *)
(* Python dicts, which iterate in insertion order; each is a sequence of   *)
(* entries with distinct image_path.                                       *)

\* database_features.get(image_path); for a key the store does not hold the
\* value is None, which the scorer treats as a set without descriptors
\* (line 395)
FeaturesGet(features, image_path) ==
    IF \E i \in 1..Len(features) : features[i].image_path = image_path
    THEN features[CHOOSE i \in 1..Len(features) :
                      features[i].image_path = image_path].descriptors
    ELSE <<>>

\* variant of FeaturesMissing that finds every key, used to measure the
\* sensitivity of C30
FeaturesNeverMissing(features, image_path) == FALSE

\* database_features.get(image_path) is None
FeaturesMissing(features, image_path) ==
    \A i \in 1..Len(features) : features[i].image_path # image_path

\* database_metadata.get(image_path, {})
MetadataGet(metadata, image_path) ==
    IF \E i \in 1..Len(metadata) : metadata[i].image_path = image_path
    THEN [features_count |->
              metadata[CHOOSE i \in 1..Len(metadata) :
                           metadata[i].image_path = image_path].features_count]
    ELSE EmptyDict

\* the metadata process_database_images stores beside each descriptor set
MetadataOf(features) ==
    [i \in 1..Len(features) |->
        [image_path |-> features[i].image_path,
         features_count |-> Len(features[i].descriptors)]]

---------------------------------------------------------------------------
(* Ranking: results.sort(key=similarity_score, reverse=True) is stable,    *)
(* so equal scores keep the order they had in the list; results[:top_k].   *)

\* variant of SortByScoreDesc that leaves the list as it is, used to measure
\* the sensitivity of C3
KeepOrder(rs) == rs

\* variant of SliceTo that keeps the whole list, used to measure the
\* sensitivity of C6
WholeList(s, k) == s

RECURSIVE InsertByScore(_, _)
InsertByScore(sorted, r) ==
    IF sorted = <<>> THEN <<r>>
    ELSE IF r.similarity_score > Head(sorted).similarity_score THEN <<r>> \o sorted
    ELSE <<Head(sorted)>> \o InsertByScore(Tail(sorted), r)

RECURSIVE SortByScoreDesc(_)
SortByScoreDesc(rs) ==
    IF rs = <<>> THEN <<>>
    ELSE InsertByScore(SortByScoreDesc(SubSeq(rs, 1, Len(rs) - 1)), rs[Len(rs)])

\* the Python slice s[:k]
SliceTo(s, k) ==
    IF k >= 0 THEN SubSeq(s, 1, Min(k, Len(s)))
    ELSE SubSeq(s, 1, Max(0, Len(s) + k))

---------------------------------------------------------------------------
(* ImageMatcher._search_sequential *)

SearchResult(metadata, image_path, score, stopped) ==
    [image_path |-> image_path,
     similarity_score |-> score,
     metadata |-> MetadataGet(metadata, image_path),
     early_stopped |-> stopped]

RECURSIVE SequentialLoop(_, _, _, _, _, _)

\* lines 586-604 without the return of line 595: an image that reaches
\* early_stop_threshold is appended and the loop goes on
SequentialItemNoStop(cfg, features, metadata, query, i, acc, sim) ==
    SequentialLoop(cfg, features, metadata, query, i + 1,
        IF sim >= Pct(cfg.early_stop_threshold)
        THEN Append(acc, SearchResult(metadata, features[i].image_path, sim, TRUE))
        ELSE IF sim >= Pct(cfg.min_threshold)
        THEN Append(acc, SearchResult(metadata, features[i].image_path, sim, FALSE))
        ELSE acc)

\* lines 586-604 for one item: the score decides between the early return,
\* the append and the skip
SequentialItem(cfg, features, metadata, query, i, acc, sim) ==
    IF sim >= Pct(cfg.early_stop_threshold)
    THEN [returned |-> <<SearchResult(metadata, features[i].image_path, sim, TRUE)>>,
          images_processed |-> i, sorted |-> FALSE]
    ELSE SequentialLoop(cfg, features, metadata, query, i + 1,
             IF sim >= Pct(cfg.min_threshold)
             THEN Append(acc, SearchResult(metadata, features[i].image_path, sim, FALSE))
             ELSE acc)

\* the loop over database_features.items() from item i on; acc is the
\* list accumulated so far.  Yields the list the loop ends with, the number
\* of images scored and whether the list still has to be sorted and cut.
SequentialLoop(cfg, features, metadata, query, i, acc) ==
    IF i > Len(features)
    THEN [returned |-> acc, images_processed |-> i - 1, sorted |-> TRUE]
    ELSE SequentialItem(cfg, features, metadata, query, i, acc,
                        Score(query, features[i].descriptors))

\* lines 606-609
RankAndCut(run, k) ==
    IF run.sorted
    THEN SliceTo(SortByScoreDesc(run.returned), k)
    ELSE run.returned

search_sequential(cfg, features, metadata, query, k) ==
    RankAndCut(SequentialLoop(cfg, features, metadata, query, 1, <<>>), k)

---------------------------------------------------------------------------
(* ImageMatcher._calculate_similarity_batch and the batches of            *)
(* ImageMatcher._search_parallel                                           *)

RECURSIVE BatchLoop(_, _, _, _, _)

\* variant of BatchItem without the early return, used to measure the
\* sensitivity of C1
BatchItemNoStop(cfg, metadata, query, batch_items, acc, sim) ==
    BatchLoop(cfg, metadata, query, Tail(batch_items),
        IF sim >= Pct(cfg.min_threshold)
        THEN Append(acc, SearchResult(metadata, Head(batch_items).image_path,
                                      sim, FALSE))
        ELSE acc)

\* lines 621-636 for one item
BatchItem(cfg, metadata, query, batch_items, acc, sim) ==
    IF sim >= Pct(cfg.early_stop_threshold)
    THEN <<SearchResult(metadata, Head(batch_items).image_path, sim, TRUE)>>
    ELSE BatchLoop(cfg, metadata, query, Tail(batch_items),
             IF sim >= Pct(cfg.min_threshold)
             THEN Append(acc, SearchResult(metadata, Head(batch_items).image_path,
                                           sim, FALSE))
             ELSE acc)

BatchLoop(cfg, metadata, query, batch_items, acc) ==
    IF batch_items = <<>> THEN acc
    ELSE BatchItem(cfg, metadata, query, batch_items, acc,
                   Score(query, Head(batch_items).descriptors))

\* variant of calculate_similarity_batch in which a scoring failure ends the
\* task of the batch, whose results the caller then drops (lines 681-682),
\* used to measure the sensitivity of C21
calculate_similarity_batch_raising(cfg, metadata, query, batch_items) ==
    IF \E n \in 1..Len(batch_items) : MatchRaises(query, batch_items[n].descriptors)
    THEN <<>>
    ELSE BatchLoop(cfg, metadata, query, batch_items, <<>>)

calculate_similarity_batch(cfg, metadata, query, batch_items) ==
    BatchLoop(cfg, metadata, query, batch_items, <<>>)

\* number of batches: len(range(0, len(database_items), batch_size))
BatchCount(features, batch_size) == (Len(features) + batch_size - 1) \div batch_size

\* variant of Batch that leaves out the first item of each batch, used to
\* measure the sensitivity of C35
BatchSkipping(features, batch_size, b) ==
    SubSeq(features, (b - 1) * batch_size + 2, Min(b * batch_size, Len(features)))

\* database_items[i:i + batch_size] for the b-th batch (b from 1)
Batch(features, batch_size, b) ==
    SubSeq(features, (b - 1) * batch_size + 1, Min(b * batch_size, Len(features)))


---------------------------------------------------------------------------
(* The Annoy index ('angular' metric) as the adapter uses it: add_item,    *)
(* build, get_nns_by_vector.  On an index this small, with search_k left   *)
(* at n * n_trees, Annoy inspects every item: the n nearest items come     *)
(* back, nearest first, equal distances by ascending id.                   *)

\* the largest r with r * r <= n
ISqrt(n) == CHOOSE r \in 0..(n + 1) : r * r <= n /\ (r + 1) * (r + 1) > n

\* descriptor.astype(np.float32): the 32 byte values as numbers
AsFloat(x) == DescriptorBytes(x)

Dot(u, v) == SeqSum([i \in 1..descriptor_dim |-> u[i] * v[i]])

\* sqrt(2 - 2 * pq / sqrt(pp * qq)) in hundredths, rounded down, for the
\* dot product pq and the norms sqrt(pp), sqrt(qq) rounded down; sqrt(2)
\* when a vector is all zero
AngularOf(pq, norm_p, norm_q) ==
    IF norm_p * norm_q > 0
    THEN ISqrt(Max(0, 20000 - 20 * ((pq * 1000) \div (norm_p * norm_q))))
    ELSE ISqrt(20000)

\* Annoy's angular distance between two float vectors
AngularVectors(u, v) == AngularOf(Dot(u, v), ISqrt(Dot(u, u)), ISqrt(Dot(v, v)))

AngularDistance(x, y) == AngularVectors(AsFloat(x), AsFloat(y))

AngularTable == [x \in DescriptorPool, y \in DescriptorPool |-> AngularDistance(x, y)]

\* the (image_path, desc_idx, descriptor) triples of the store, image by
\* image in store order, by ascending position within an image
RECURSIVE FlatDescriptors(_)
FlatDescriptors(features) ==
    IF features = <<>> THEN <<>>
    ELSE LET img == Head(features)
         IN  [i \in 1..Len(img.descriptors) |->
                 [image_path |-> img.image_path, desc_idx |-> i - 1,
                  descriptor |-> img.descriptors[i]]]
             \o FlatDescriptors(Tail(features))

\* lines 231-254: the index and the mappings over the flattened store;
\* annoy_id counts from 0
IndexOver(flat) ==
    [annoy_index |->
         [items |-> [id \in 0..(Len(flat) - 1) |-> flat[id + 1].descriptor],
          built |-> TRUE],
     annoy_id_to_image |->
         [key \in {ToString(id) : id \in 0..(Len(flat) - 1)} |->
             flat[CHOOSE n \in 1..Len(flat) : ToString(n - 1) = key].image_path],
     annoy_id_to_descriptor_idx |->
         [key \in {ToString(id) : id \in 0..(Len(flat) - 1)} |->
             flat[CHOOSE n \in 1..Len(flat) : ToString(n - 1) = key].desc_idx]]

\* ImageMatcher.build_annoy_index: a new index and new mappings
build_annoy_index(features) == IndexOver(FlatDescriptors(features))

\* id a comes before id b among the neighbours of v: it is nearer, or as
\* near and the lesser id
Nearer(index, v, a, b) ==
    \/ AngularTable[v, index.items[a]] < AngularTable[v, index.items[b]]
    \/ AngularTable[v, index.items[a]] = AngularTable[v, index.items[b]] /\ a < b

\* the ids 0 .. n - 1 of the items of an index, ascending
ItemIds(index) == [n \in 1..Cardinality(DOMAIN index.items) |-> n - 1]

\* the items of the index ordered by (distance to v, id)
NearestFirst(index, v) ==
    LET NearerToV(a, b) == Nearer(index, v, a, b)
    IN [n \in 1..Cardinality(DOMAIN index.items) |->
           [annoy_id |-> SortSeq(ItemIds(index), NearerToV)[n],
            distance |->
                AngularTable[v, index.items[SortSeq(ItemIds(index), NearerToV)[n]]]]]

\* annoy_index.get_nns_by_vector(v, n, include_distances=True); an index
\* whose trees are not built has no root to search from and returns nothing
get_nns_by_vector(index, v, n) ==
    IF ~index.built THEN <<>>
    ELSE SliceTo(NearestFirst(index, v), n)


---------------------------------------------------------------------------
(* ImageMatcher._search_with_annoy *)

Phase2Cap == 100
SearchKCap == 300

\* search_k_expanded
SearchKExpanded(cfg) == Min(cfg.annoy_search_k * 3, SearchKCap)

\* the (annoy_id, distance) pairs of all query descriptors, in loop order
RECURSIVE Phase1Hits(_, _, _)
Phase1Hits(index, query, n) ==
    IF query = <<>> THEN <<>>
    ELSE get_nns_by_vector(index, Head(query), n) \o Phase1Hits(index, Tail(query), n)

\* similarity = max(0, 1 - distance / 2), in units of 1/200
AnnoySimilarity(distance) == Max(0, 200 - distance)

\* annoy_id_to_image.get(str(annoy_id)) is not None
Resolvable(id_to_image, annoy_id) == ToString(annoy_id) \in DOMAIN id_to_image

\* the hits whose annoy_id the mapping resolves, as (image_path, similarity)
ResolvedHits(id_to_image, hits) ==
    LET Known(hit) == Resolvable(id_to_image, hit.annoy_id)
    IN [n \in 1..Len(SelectSeq(hits, Known)) |->
           [image_path |->
                id_to_image[ToString(SelectSeq(hits, Known)[n].annoy_id)],
            similarity |->
                AnnoySimilarity(SelectSeq(hits, Known)[n].distance)]]

\* image_scores[image_path]['annoy_scores']
AnnoyScores(resolved, image_path) ==
    LET Of(hit) == hit.image_path = image_path
    IN [n \in 1..Len(SelectSeq(resolved, Of)) |-> SelectSeq(resolved, Of)[n].similarity]

RECURSIVE SeqMax(_)
SeqMax(s) == IF s = <<>> THEN 0 ELSE Max(Head(s), SeqMax(Tail(s)))

\* image_scores[image_path]['annoy_best']
AnnoyBest(resolved, image_path) == SeqMax(AnnoyScores(resolved, image_path))

\* candidate_images
CandidateImages(resolved) == {resolved[i].image_path : i \in 1..Len(resolved)}

\* image_scores after Phase 1 (lines 509-524)
ImageScores(resolved) ==
    [image_path \in CandidateImages(resolved) |->
        [annoy_scores |-> AnnoyScores(resolved, image_path),
         annoy_best |-> AnnoyBest(resolved, image_path)]]

\* sorted(candidate_images, key=annoy_best, reverse=True) for
\* candidate_images iterated in the order imgs: by descending annoy_best
\* and, the sort being stable, images of the same annoy_best in the order
\* of imgs
SortByBestDesc(scores, imgs) ==
    LET Precedes(i, j) ==
            \/ scores[imgs[i]].annoy_best > scores[imgs[j]].annoy_best
            \/ /\ scores[imgs[i]].annoy_best = scores[imgs[j]].annoy_best
               /\ i < j
    IN [position \in 1..Len(imgs) |->
           imgs[SortSeq([i \in 1..Len(imgs) |-> i], Precedes)[position]]]

\* variant of TopCandidates that cuts candidate_images before it sorts
\* them, used to measure the sensitivity of C28
TopCandidatesCutFirst(scores, iteration) ==
    SortByBestDesc(scores, SliceTo(iteration, Min(Phase2Cap, Len(iteration))))

\* top_candidates, for candidate_images iterated in the order iteration
TopCandidates(scores, iteration) ==
    SliceTo(SortByBestDesc(scores, iteration), Min(Phase2Cap, Len(iteration)))

\* sum(annoy_scores) / len(annoy_scores), in score units
Mean200(scores) == (ScoreDen \div (200 * Len(scores))) * SeqSum(scores)

\* annoy_avg
AnnoyAvg(resolved, image_path) == Mean200(AnnoyScores(resolved, image_path))

\* variant of HybridScore with the two weights exchanged, used to measure
\* the sensitivity of C29
HybridScoreSwapped(orb_similarity, annoy_avg) ==
    (orb_similarity \div 10) * 3 + (annoy_avg \div 10) * 7

\* hybrid_score = orb_similarity * 0.7 + annoy_avg * 0.3
HybridScore(orb_similarity, annoy_avg) ==
    (orb_similarity \div 10) * 7 + (annoy_avg \div 10) * 3

\* lines 551-562
HybridResult(metadata, image_path, orb_similarity, annoy_avg, hybrid_score, annoy_matches) ==
    [image_path |-> image_path,
     similarity_score |-> hybrid_score,
     metadata |-> MetadataGet(metadata, image_path),
     match_details |->
         [orb_similarity |-> orb_similarity,
          annoy_similarity |-> annoy_avg,
          hybrid_score |-> hybrid_score,
          annoy_matches |-> annoy_matches],
     search_method |-> "hybrid_annoy_orb"]

\* lines 544-548 for the candidate at the head of candidates
Refined(metadata, resolved, image_path, orb_similarity, annoy_avg) ==
    HybridResult(metadata, image_path, orb_similarity, annoy_avg,
                 HybridScore(orb_similarity, annoy_avg),
                 Len(AnnoyScores(resolved, image_path)))

\* lines 550-568 for one refined candidate
RECURSIVE RefineLoop(_, _, _, _, _, _, _)
RefineItem(cfg, features, metadata, query, resolved, candidates, acc, result) ==
    IF result.similarity_score >= Pct(cfg.min_threshold)
       /\ result.similarity_score >= Pct(cfg.early_stop_threshold)
    THEN [returned |-> <<result>>, sorted |-> FALSE]
    ELSE RefineLoop(cfg, features, metadata, query, resolved, Tail(candidates),
             IF result.similarity_score >= Pct(cfg.min_threshold)
             THEN Append(acc, result)
             ELSE acc)

\* the loop over top_candidates; yields the list the loop ends with and
\* whether it still has to be sorted and cut
RefineLoop(cfg, features, metadata, query, resolved, candidates, acc) ==
    IF candidates = <<>> THEN [returned |-> acc, sorted |-> TRUE]
    ELSE IF FeaturesMissing(features, Head(candidates))
    THEN RefineLoop(cfg, features, metadata, query, resolved, Tail(candidates), acc)
    ELSE RefineItem(cfg, features, metadata, query, resolved, candidates, acc,
             Refined(metadata, resolved, Head(candidates),
                     Score(query, FeaturesGet(features, Head(candidates))),
                     AnnoyAvg(resolved, Head(candidates))))

\* Phase 1 of the running matcher for a query
Phase1(cfg, index, id_to_image, query) ==
    ResolvedHits(id_to_image, Phase1Hits(index, query, SearchKExpanded(cfg)))

\* the orders in which a Python set may be iterated
IterationOrders(S) ==
    {f \in [1..Cardinality(S) -> S] : \A i, j \in 1..Cardinality(S) : i # j => f[i] # f[j]}

\* lines 528-574, given the hits of Phase 1
Phase2(cfg, features, metadata, query, k, resolved, iteration) ==
    RankAndCut(RefineLoop(cfg, features, metadata, query, resolved,
                          TopCandidates(ImageScores(resolved), iteration), <<>>), k)

search_with_annoy(cfg, features, metadata, index, id_to_image, query, k, iteration) ==
    IF index = NoIndex
    THEN search_sequential(cfg, features, metadata, query, k)
    ELSE Phase2(cfg, features, metadata, query, k,
                Phase1(cfg, index, id_to_image, query), iteration)

---------------------------------------------------------------------------
(* Configuration: ImageMatcher.__init__ and the ranges accepted by         *)
(* update_performance_config.  Thresholds are in hundredths.               *)

DefaultConfig ==
    [early_stop_threshold |-> 98,
     min_threshold |-> 20,
     max_workers |-> 16,
     use_parallel_search |-> TRUE,
     batch_size |-> 100,
     use_annoy |-> TRUE,
     annoy_search_k |-> 200]

BatchSizeMin == 10

\* the query parameters of POST /performance/config, in the order in which
\* the handler examines them
ConfigFields ==
    <<"early_stop_threshold", "min_threshold", "max_workers", "use_parallel_search",
      "batch_size", "use_annoy", "annoy_search_k">>

\* the value a field of a request has when the parameter is not sent
\* (None: the field is then not read)
AbsentValues ==
    [early_stop_threshold |-> 0,
     min_threshold |-> 0,
     max_workers |-> 0,
     use_parallel_search |-> FALSE,
     batch_size |-> 0,
     use_annoy |-> FALSE,
     annoy_search_k |-> 0]

\* a request is the set of parameters sent and a value for each
RequestOf(params, values) == [params |-> params, values |-> values]

\* no parameter sent
EmptyRequest == RequestOf({}, AbsentValues)

\* <name> is not None
Sent(req, name) == name \in req.params

\* variant of Assign that writes the value over the defaults, used to
\* measure the sensitivity of C10
AssignOverDefaults(cfg, name, value) == [DefaultConfig EXCEPT ![name] = value]

\* matcher.<name> = <name>
Assign(cfg, name, value) == [cfg EXCEPT ![name] = value]

\* raise HTTPException(status_code=400, ...): what was assigned stays, and
\* the response carries the detail only
Rejected(cfg) == [config |-> cfg, status |-> 400, updated |-> {}]

\* lines 848-860: the 200 response
Accepted(cfg, updated) == [config |-> cfg, status |-> 200, updated |-> updated]

\* lines 841-846, then the response
UpdateAnnoySearchK(cfg, req, updated) ==
    IF ~Sent(req, "annoy_search_k") THEN Accepted(cfg, updated)
    ELSE IF 10 <= req.values.annoy_search_k /\ req.values.annoy_search_k <= 1000
    THEN Accepted(Assign(cfg, "annoy_search_k", req.values.annoy_search_k),
                  updated \cup {"annoy_search_k"})
    ELSE Rejected(cfg)

\* variant of UpdateUseAnnoy that leaves use_annoy as it was, used to measure
\* the sensitivity of C34
UpdateUseAnnoyIgnored(cfg, req, updated) == UpdateAnnoySearchK(cfg, req, updated)

\* lines 837-839, then the rest of the handler
UpdateUseAnnoy(cfg, req, updated) ==
    IF ~Sent(req, "use_annoy") THEN UpdateAnnoySearchK(cfg, req, updated)
    ELSE UpdateAnnoySearchK(Assign(cfg, "use_annoy", req.values.use_annoy), req,
                            updated \cup {"use_annoy"})

\* lines 830-835, then the rest of the handler
UpdateBatchSize(cfg, req, updated) ==
    IF ~Sent(req, "batch_size") THEN UpdateUseAnnoy(cfg, req, updated)
    ELSE IF BatchSizeMin <= req.values.batch_size /\ req.values.batch_size <= 200
    THEN UpdateUseAnnoy(Assign(cfg, "batch_size", req.values.batch_size), req,
                        updated \cup {"batch_size"})
    ELSE Rejected(cfg)

\* lines 826-828, then the rest of the handler
UpdateUseParallelSearch(cfg, req, updated) ==
    IF ~Sent(req, "use_parallel_search") THEN UpdateBatchSize(cfg, req, updated)
    ELSE UpdateBatchSize(Assign(cfg, "use_parallel_search",
                                req.values.use_parallel_search), req,
                         updated \cup {"use_parallel_search"})

\* variant of UpdateMaxWorkers that assigns before it tests the range, used
\* to measure the sensitivity of C37
UpdateMaxWorkersAssignFirst(cfg, req, updated) ==
    IF ~Sent(req, "max_workers") THEN UpdateUseParallelSearch(cfg, req, updated)
    ELSE IF 1 <= req.values.max_workers /\ req.values.max_workers <= 16
    THEN UpdateUseParallelSearch(Assign(cfg, "max_workers", req.values.max_workers),
                                 req, updated \cup {"max_workers"})
    ELSE Rejected(Assign(cfg, "max_workers", req.values.max_workers))

\* lines 819-824, then the rest of the handler
UpdateMaxWorkers(cfg, req, updated) ==
    IF ~Sent(req, "max_workers") THEN UpdateUseParallelSearch(cfg, req, updated)
    ELSE IF 1 <= req.values.max_workers /\ req.values.max_workers <= 16
    THEN UpdateUseParallelSearch(Assign(cfg, "max_workers", req.values.max_workers),
                                 req, updated \cup {"max_workers"})
    ELSE Rejected(cfg)

\* lines 812-817, then the rest of the handler
UpdateMinThreshold(cfg, req, updated) ==
    IF ~Sent(req, "min_threshold") THEN UpdateMaxWorkers(cfg, req, updated)
    ELSE IF 0 <= req.values.min_threshold /\ req.values.min_threshold <= 100
    THEN UpdateMaxWorkers(Assign(cfg, "min_threshold", req.values.min_threshold),
                          req, updated \cup {"min_threshold"})
    ELSE Rejected(cfg)

\* lines 805-810, then the rest of the handler
UpdateEarlyStopThreshold(cfg, req, updated) ==
    IF ~Sent(req, "early_stop_threshold") THEN UpdateMinThreshold(cfg, req, updated)
    ELSE IF 10 <= req.values.early_stop_threshold
            /\ req.values.early_stop_threshold <= 100
    THEN UpdateMinThreshold(Assign(cfg, "early_stop_threshold",
                                   req.values.early_stop_threshold),
                            req, updated \cup {"early_stop_threshold"})
    ELSE Rejected(cfg)

\* POST /performance/config on a matcher configured cfg: the configuration
\* the handler leaves, the status of the response and the fields it lists
\* as updated
update_performance_config(cfg, req) == UpdateEarlyStopThreshold(cfg, req, {})

---------------------------------------------------------------------------
(* Inputs of the search model *)

\* descriptor sets of stored images: far from every query, and two others
Filler == <<250>>
ImagePool == {Filler, <<40, 130>>, <<75>>}

\* descriptor sets extract_features yields for a query; <<>> when ORB
\* finds no descriptors
Queries == {<<>>, <<40, 130>>, <<60>>}

TopKs == {1, 2}

\* stores small enough to be searched through the index
MaxIndexedImages == 2

\* positions of a larger store that hold any image of the pool; the other
\* positions hold Filler
VariedPositions == {1, BatchSizeMin, BatchSizeMin + 1}

StoreSizes == (0..MaxIndexedImages) \cup (BatchSizeMin..MaxImages)

\* image paths are written 1, 2, ...; a store never holds an empty
\* descriptor set (process_database_images skips such images)
Varied(n) == IF n <= MaxIndexedImages THEN 1..n ELSE VariedPositions \cap (1..n)

StoresOfSize(n) ==
    {[i \in 1..n |->
         [image_path |-> i,
          descriptors |-> IF i \in Varied(n) THEN g[i] ELSE Filler]] :
        g \in [Varied(n) -> ImagePool]}

Stores == UNION {StoresOfSize(n) : n \in StoreSizes}


\* the strategies, each with the tunables it reads
StrategyConfigs ==
    {[DefaultConfig EXCEPT !.use_annoy = a, !.use_parallel_search = p,
                           !.max_workers = w, !.batch_size = b] :
        a \in BOOLEAN, p \in BOOLEAN, w \in {1, 2}, b \in {BatchSizeMin, 100}}

SearchConfigs ==
    {[c EXCEPT !.early_stop_threshold = e, !.min_threshold = m] :
        c \in {s \in StrategyConfigs :
                  (s.use_annoy \/ ~s.use_parallel_search) =>
                      s.max_workers = 2 /\ s.batch_size = 100},
        e \in {10, 50, 98}, m \in {0, 20, 60}}

---------------------------------------------------------------------------
(* The search request: ImageMatcher.search_similar_images *)

NoFutures == <<>>

\* outside _search_with_annoy its locals hold nothing
NoPhase2 ==
    /\ image_scores = <<>>
    /\ top_candidates = <<>>
    /\ candidate = 0
    /\ refined_results = <<>>

\* the matcher holds cfg, the store features and the index built over it
MatcherHolds(cfg, features, built) ==
    /\ config = cfg
    /\ database_features = features
    /\ database_metadata = MetadataOf(features)
    /\ annoy_index = built.annoy_index
    /\ annoy_id_to_image = built.annoy_id_to_image
    /\ annoy_id_to_descriptor_idx = built.annoy_id_to_descriptor_idx

\* annoy_index = None and empty mappings (lines 70-72)
Unbuilt ==
    [annoy_index |-> NoIndex,
     annoy_id_to_image |-> <<>>,
     annoy_id_to_descriptor_idx |-> <<>>]

\* the state of the matcher after construction over a store: the index is
\* built by load_cache or process_database_images when the store is not empty
MatcherOver(cfg, features) ==
    MatcherHolds(cfg, features,
                 IF features = <<>> THEN Unbuilt ELSE build_annoy_index(features))

---------------------------------------------------------------------------
(* The collection directory and the cache files.  A file is missing,       *)
(* unreadable, or holds what the last save wrote into it.                  *)

\* the in-memory state of a matcher
MatcherOf(cfg, features, metadata, built) ==
    [config |-> cfg,
     database_features |-> features,
     database_metadata |-> metadata,
     annoy_index |-> built.annoy_index,
     annoy_id_to_image |-> built.annoy_id_to_image,
     annoy_id_to_descriptor_idx |-> built.annoy_id_to_descriptor_idx]

\* lines 34-72: the matcher before load_or_create_database runs
FreshMatcher == MatcherOf(DefaultConfig, <<>>, <<>>, Unbuilt)

\* AnnoyIndex(descriptor_dim, 'angular') before any item is added or loaded
EmptyIndex == [items |-> <<>>, built |-> FALSE]

\* a file that does not exist; empty is what stands for its content
Missing(empty) == [state |-> "missing", content |-> empty]

\* a file that exists and cannot be read back
Unreadable(empty) == [state |-> "corrupt", content |-> empty]

\* a file a save wrote
Written(content) == [state |-> "ok", content |-> content]

\* pickle.dump / pickle.load of the dict of descriptor arrays: the keys,
\* their order and the arrays come back as they were
PickleDump(features) == [pickled |-> features]
PickleLoad(blob) == blob.pickled

\* json.dump / json.load of a dict with str keys whose values are ints and
\* strs: the keys, their order and the values come back as they were (the
\* tuple image_shape, which the model does not keep, comes back a list)
JsonDump(document) == [json |-> document]
JsonLoad(text) == text.json

NoMapping == [id_to_image |-> <<>>, id_to_descriptor_idx |-> <<>>]

\* the four cache files
DiskOf(features_file, metadata_file, index_file, mapping_file) ==
    [features_cache_file |-> features_file,
     metadata_cache_file |-> metadata_file,
     annoy_index_file |-> index_file,
     annoy_mapping_file |-> mapping_file]

\* no cache file exists
EmptyDisk ==
    DiskOf(Missing(PickleDump(<<>>)), Missing(JsonDump(<<>>)),
           Missing(NoIndex), Missing(JsonDump(NoMapping)))

\* os.path.exists
Exists(file) == file.state # "missing"

\* ImageMatcher.save_annoy_index
save_annoy_index(m, disk) ==
    [disk EXCEPT
        !.annoy_index_file = Written(m.annoy_index),
        !.annoy_mapping_file =
            Written(JsonDump([id_to_image |-> m.annoy_id_to_image,
                              id_to_descriptor_idx |-> m.annoy_id_to_descriptor_idx]))]

\* lines 148-152
SaveStore(m, disk) ==
    [disk EXCEPT
        !.features_cache_file = Written(PickleDump(m.database_features)),
        !.metadata_cache_file = Written(JsonDump(m.database_metadata))]

\* ImageMatcher.save_cache
save_cache(m, disk) ==
    IF m.config.use_annoy /\ m.annoy_index # NoIndex
    THEN save_annoy_index(m, SaveStore(m, disk))
    ELSE SaveStore(m, disk)

\* build_annoy_index without lines 232-233: the slots of the new build are
\* written over the mappings of the build before
WithIndexOverOldSlots(m, built) ==
    [m EXCEPT !.annoy_index = built.annoy_index,
              !.annoy_id_to_image = built.annoy_id_to_image @@ @,
              !.annoy_id_to_descriptor_idx = built.annoy_id_to_descriptor_idx @@ @]

\* lines 231-233 and 240-272 on the matcher m
WithIndex(m, built) ==
    [m EXCEPT !.annoy_index = built.annoy_index,
              !.annoy_id_to_image = built.annoy_id_to_image,
              !.annoy_id_to_descriptor_idx = built.annoy_id_to_descriptor_idx]

\* the slots of flat numbered from first on
SlotsFrom(first, flat) ==
    [items |->
         [id \in first..(first + Len(flat) - 1) |-> flat[id - first + 1].descriptor],
     annoy_id_to_image |->
         [key \in {ToString(id) : id \in first..(first + Len(flat) - 1)} |->
             flat[CHOOSE n \in 1..Len(flat) : ToString(first + n - 1) = key].image_path],
     annoy_id_to_descriptor_idx |->
         [key \in {ToString(id) : id \in first..(first + Len(flat) - 1)} |->
             flat[CHOOSE n \in 1..Len(flat) : ToString(first + n - 1) = key].desc_idx]]

\* the slots added are put after those the matcher m holds
AddSlots(m, added) ==
    [m EXCEPT !.annoy_index = [items |-> @.items @@ added.items, built |-> TRUE],
              !.annoy_id_to_image = @ @@ added.annoy_id_to_image,
              !.annoy_id_to_descriptor_idx = @ @@ added.annoy_id_to_descriptor_idx]

\* build_annoy_index without lines 231-233 and with annoy_id starting at
\* the number of slots of the index it finds: a second build adds the
\* descriptors of the store once more
BuildAnnoyIndexAdding(m) ==
    IF ~m.config.use_annoy THEN m
    ELSE IF m.annoy_index = NoIndex
    THEN WithIndex(m, build_annoy_index(m.database_features))
    ELSE AddSlots(m, SlotsFrom(Cardinality(DOMAIN m.annoy_id_to_image),
                               FlatDescriptors(m.database_features)))

\* the method ImageMatcher.build_annoy_index on the matcher m
BuildAnnoyIndex(m) ==
    IF ~m.config.use_annoy THEN m
    ELSE WithIndex(m, build_annoy_index(m.database_features))

\* lines 192-193
WithMapping(m, mapping) ==
    [m EXCEPT !.annoy_id_to_image = mapping.id_to_image,
              !.annoy_id_to_descriptor_idx = mapping.id_to_descriptor_idx]

\* lines 196-200: a new AnnoyIndex is assigned, then loaded from the file
LoadIndexFile(m, file) ==
    IF file.state = "corrupt"
    THEN [ok |-> FALSE, matcher |-> [m EXCEPT !.annoy_index = EmptyIndex]]
    ELSE [ok |-> TRUE, matcher |-> [m EXCEPT !.annoy_index = file.content]]

\* ImageMatcher.load_annoy_index: whether it returned True, and the matcher
load_annoy_index(m, disk) ==
    IF ~(Exists(disk.annoy_index_file) /\ Exists(disk.annoy_mapping_file))
    THEN [ok |-> FALSE, matcher |-> m]
    ELSE IF disk.annoy_mapping_file.state = "corrupt"
    THEN [ok |-> FALSE, matcher |-> m]
    ELSE LoadIndexFile(WithMapping(m, JsonLoad(disk.annoy_mapping_file.content)),
                       disk.annoy_index_file)

\* lines 299-303
IndexLoadedOrBuilt(loaded) ==
    [ok |-> TRUE,
     matcher |-> IF loaded.ok THEN loaded.matcher ELSE BuildAnnoyIndex(loaded.matcher)]

\* lines 297-303
LoadIndex(m, disk) ==
    IF ~m.config.use_annoy THEN [ok |-> TRUE, matcher |-> m]
    ELSE IndexLoadedOrBuilt(load_annoy_index(m, disk))

\* lines 292-303: database_features is already assigned
LoadMetadata(m, disk) ==
    IF disk.metadata_cache_file.state = "corrupt"
    THEN [ok |-> FALSE, matcher |-> m]
    ELSE LoadIndex([m EXCEPT !.database_metadata =
                        JsonLoad(disk.metadata_cache_file.content)], disk)

\* ImageMatcher.load_cache: whether it returned True, and the matcher
load_cache(m, disk) ==
    IF ~(Exists(disk.features_cache_file) /\ Exists(disk.metadata_cache_file))
    THEN [ok |-> FALSE, matcher |-> m]
    ELSE IF disk.features_cache_file.state = "corrupt"
    THEN [ok |-> FALSE, matcher |-> m]
    ELSE LoadMetadata([m EXCEPT !.database_features =
                           PickleLoad(disk.features_cache_file.content)], disk)

\* d[key] = value on a dict kept as a sequence of entries: the entry of an
\* existing key is replaced where it is, a new key goes to the end
DictSet(entries, entry) ==
    IF \E i \in 1..Len(entries) : entries[i].image_path = entry.image_path
    THEN [i \in 1..Len(entries) |->
             IF entries[i].image_path = entry.image_path THEN entry ELSE entries[i]]
    ELSE Append(entries, entry)

\* lines 334-349 for one file of the walk; a file that cannot be read as
\* an image is skipped like one without descriptors
ExtractOne(store, file) ==
    IF Len(file.descriptors) > 0
    THEN [features |-> DictSet(store.features,
                               [image_path |-> file.image_path,
                                descriptors |-> file.descriptors]),
          metadata |-> DictSet(store.metadata,
                               [image_path |-> file.image_path,
                                features_count |-> Len(file.descriptors)]),
          processed_count |-> store.processed_count + 1]
    ELSE store

\* lines 332-368: the loop over all_image_files
RECURSIVE ExtractAll(_, _)
ExtractAll(store, files) ==
    IF files = <<>> THEN store
    ELSE ExtractAll(ExtractOne(store, Head(files)), Tail(files))

\* the dicts of the matcher as the loop finds them
StoreOf(m) ==
    [features |-> m.database_features, metadata |-> m.database_metadata,
     processed_count |-> 0]

WithStore(m, store) ==
    [m EXCEPT !.database_features = store.features,
              !.database_metadata = store.metadata]

\* line 385: save_cache, which raises when the cache file cannot be opened
\* for writing
SaveAfter(m, disk, save_ok) ==
    IF save_ok
    THEN [raised |-> FALSE, matcher |-> m, disk |-> save_cache(m, disk)]
    ELSE [raised |-> TRUE, matcher |-> m, disk |-> disk]

\* lines 381-385
BuildAndSave(m, store, disk, save_ok) ==
    SaveAfter(IF m.config.use_annoy /\ store.processed_count > 0
              THEN BuildAnnoyIndex(WithStore(m, store))
              ELSE WithStore(m, store),
              disk, save_ok)

\* ImageMatcher.process_database_images: whether it raised, the matcher and
\* the cache files it leaves
process_database_images(m, directory, disk, save_ok) ==
    IF ~directory.exists
    THEN [raised |-> TRUE, matcher |-> m, disk |-> disk]
    ELSE BuildAndSave(m, ExtractAll(StoreOf(m), directory.files), disk, save_ok)

\* lines 389-391
AfterLoad(loaded, directory, disk, save_ok) ==
    IF loaded.ok
    THEN [raised |-> FALSE, matcher |-> loaded.matcher, disk |-> disk]
    ELSE process_database_images(loaded.matcher, directory, disk, save_ok)

\* ImageMatcher.load_or_create_database
load_or_create_database(m, directory, disk, save_ok) ==
    AfterLoad(load_cache(m, disk), directory, disk, save_ok)

\* the matcher as the state holds it
Matcher ==
    [config |-> config,
     database_features |-> database_features,
     database_metadata |-> database_metadata,
     annoy_index |-> annoy_index,
     annoy_id_to_image |-> annoy_id_to_image,
     annoy_id_to_descriptor_idx |-> annoy_id_to_descriptor_idx]

\* the cache files as the state holds them
Disk ==
    DiskOf(features_cache_file, metadata_cache_file, annoy_index_file,
           annoy_mapping_file)

DiskIs(disk) ==
    /\ features_cache_file = disk.features_cache_file
    /\ metadata_cache_file = disk.metadata_cache_file
    /\ annoy_index_file = disk.annoy_index_file
    /\ annoy_mapping_file = disk.annoy_mapping_file

\* a lifecycle operation, the status it ended with, the count it reported
\* and whether the operation before it was the same with the same status
Op(name, status, total, repeated) ==
    [name |-> name, status |-> status, total |-> total, repeated |-> repeated]

NoOperation == Op("none", 0, 0, FALSE)

\* the collection holds the images of the store and the cache files are
\* those process_database_images saved
Deployed ==
    /\ collection = [exists |-> TRUE, files |-> database_features]
    /\ DiskIs(save_cache(Matcher, EmptyDisk))
    /\ operation = NoOperation

Idle ==
    /\ query_descriptors = <<>>
    /\ top_k = 0
    /\ pc = "idle"
    /\ futures = NoFutures
    /\ all_results = <<>>
    /\ pending_future = 0
    /\ NoPhase2
    /\ results = <<>>
    /\ search_method = None

\* no request to the configuration endpoint was served
NoResponse == [status |-> 0, updated |-> {}]

NoRequest ==
    /\ request = EmptyRequest
    /\ config_before = config
    /\ response = NoResponse

NoScorerCall ==
    /\ db_descriptors = <<>>
    /\ similarity = 0

Init ==
    /\ \E cfg \in SearchConfigs, features \in Stores :
          /\ cfg.use_annoy => Len(features) <= MaxIndexedImages
          /\ MatcherOver(cfg, features)
    /\ Idle
    /\ NoRequest
    /\ NoScorerCall
    /\ Deployed

\* variant of NoDescriptors that lets every query through, used to measure
\* the sensitivity of C8
AnyDescriptors(query) == FALSE

\* line 458: query_descriptors is None or len(query_descriptors) == 0
NoDescriptors(query) == Len(query) = 0

\* lines 458-459: no descriptors in the query
SearchEmptyQuery(query, k) ==
    /\ pc = "idle"
    /\ NoDescriptors(query)
    /\ query_descriptors' = query
    /\ top_k' = k
    /\ results' = <<>>
    /\ pc' = "done"
    /\ UNCHANGED <<futures, all_results, pending_future, search_method, hybridVars>>
    /\ UNCHANGED <<matcherVars, scorerVars, httpVars, envVars>>

\* lines 464-466
SearchHybrid(query, k) ==
    /\ pc = "idle"
    /\ ~NoDescriptors(query)
    /\ config.use_annoy /\ annoy_index # NoIndex
    /\ \E iteration \in IterationOrders(CandidateImages(
              Phase1(config, annoy_index, annoy_id_to_image, query))) :
          results' = search_with_annoy(config, database_features, database_metadata,
                                       annoy_index, annoy_id_to_image, query, k,
                                       iteration)
    /\ query_descriptors' = query
    /\ top_k' = k
    /\ search_method' = "hybrid"
    /\ pc' = "done"
    /\ UNCHANGED <<futures, all_results, pending_future, hybridVars>>
    /\ UNCHANGED <<matcherVars, scorerVars, httpVars, envVars>>

\* variant of SearchSequential that gives up the index for good when it
\* finds none, used to measure the sensitivity of C38
SearchSequentialDisablingAnnoy(query, k) ==
    /\ pc = "idle"
    /\ ~NoDescriptors(query)
    /\ ~(config.use_annoy /\ annoy_index # NoIndex)
    /\ ~config.use_parallel_search
    /\ results' = search_sequential(config, database_features, database_metadata,
                                    query, k)
    /\ config' = [config EXCEPT !.use_annoy = FALSE]
    /\ query_descriptors' = query
    /\ top_k' = k
    /\ search_method' = "sequential"
    /\ pc' = "done"
    /\ UNCHANGED <<futures, all_results, pending_future, hybridVars>>
    /\ UNCHANGED <<database_features, database_metadata, annoy_index,
                   annoy_id_to_image, annoy_id_to_descriptor_idx>>
    /\ UNCHANGED <<scorerVars, httpVars, envVars>>

\* lines 470-472
SearchSequential(query, k) ==
    /\ pc = "idle"
    /\ ~NoDescriptors(query)
    /\ ~(config.use_annoy /\ annoy_index # NoIndex)
    /\ ~config.use_parallel_search
    /\ results' = search_sequential(config, database_features, database_metadata,
                                    query, k)
    /\ query_descriptors' = query
    /\ top_k' = k
    /\ search_method' = "sequential"
    /\ pc' = "done"
    /\ UNCHANGED <<futures, all_results, pending_future, hybridVars>>
    /\ UNCHANGED <<matcherVars, scorerVars, httpVars, envVars>>

---------------------------------------------------------------------------
(* ImageMatcher._search_parallel: the batches are submitted to a          *)
(* ThreadPoolExecutor(max_workers); its workers take the tasks in          *)
(* submission order; the caller consumes the futures as they complete.     *)

Running == {b \in 1..Len(futures) : futures[b].state = "RUNNING"}

\* lines 467-469 and 642-662: every batch is submitted
SearchParallelSubmit(query, k) ==
    /\ pc = "idle"
    /\ ~NoDescriptors(query)
    /\ ~(config.use_annoy /\ annoy_index # NoIndex)
    /\ config.use_parallel_search
    /\ futures' = [b \in 1..BatchCount(database_features, config.batch_size) |->
                      [state |-> "PENDING", result |-> <<>>, yielded |-> FALSE]]
    /\ all_results' = <<>>
    /\ query_descriptors' = query
    /\ top_k' = k
    /\ search_method' = "parallel"
    /\ pc' = "as_completed"
    /\ UNCHANGED <<pending_future, results, hybridVars>>
    /\ UNCHANGED <<matcherVars, scorerVars, httpVars, envVars>>

\* a free worker takes the oldest task of the queue
WorkerStart(b) ==
    /\ pc \in {"as_completed", "cancelling", "shutdown"}
    /\ futures[b].state = "PENDING"
    /\ \A a \in 1..(b - 1) : futures[a].state # "PENDING"
    /\ Cardinality(Running) < config.max_workers
    /\ futures' = [futures EXCEPT ![b].state = "RUNNING"]
    /\ UNCHANGED <<query_descriptors, top_k, pc, all_results, pending_future, results, search_method, hybridVars>>
    /\ UNCHANGED <<matcherVars, scorerVars, httpVars, envVars>>

\* the task _calculate_similarity_batch of batch b returns
WorkerFinish(b) ==
    /\ pc \in {"as_completed", "cancelling", "shutdown"}
    /\ futures[b].state = "RUNNING"
    /\ futures' = [futures EXCEPT
           ![b].state = "FINISHED",
           ![b].result = calculate_similarity_batch(config, database_metadata,
                             query_descriptors,
                             Batch(database_features, config.batch_size, b))]
    /\ UNCHANGED <<query_descriptors, top_k, pc, all_results, pending_future, results, search_method, hybridVars>>
    /\ UNCHANGED <<matcherVars, scorerVars, httpVars, envVars>>

\* the first result of a batch that carries early_stopped
EarlyStopped(batch_results) ==
    SelectSeq(batch_results, LAMBDA r : r.early_stopped)

\* variant of Cancel that cancels nothing, used to measure the sensitivity
\* of C24
CancelNothing(future) == future

\* Future.cancel(): a future that is neither running nor done is cancelled
\* and its task will not be run; on any other future cancel() changes nothing
Cancel(future) ==
    IF future.state = "PENDING" THEN [future EXCEPT !.state = "CANCELLED"]
    ELSE future

\* lines 664-672: as_completed yields future b, which holds an early stop:
\* result is bound and the loop over future_to_batch begins
AsCompletedEarlyStop(b) ==
    /\ pc = "as_completed"
    /\ futures[b].state = "FINISHED" /\ ~futures[b].yielded
    /\ EarlyStopped(futures[b].result) # <<>>
    /\ results' = <<Head(EarlyStopped(futures[b].result))>>
    /\ futures' = [futures EXCEPT ![b].yielded = TRUE]
    /\ pending_future' = 1
    /\ pc' = "cancelling"
    /\ UNCHANGED <<query_descriptors, top_k, all_results, search_method, hybridVars>>
    /\ UNCHANGED <<matcherVars, scorerVars, httpVars, envVars>>

\* lines 674-677: one turn of the loop over future_to_batch, in submission
\* order, while the workers go on; after its last turn [result] is returned
\* and leaving the with block waits for the workers
CancelPending ==
    /\ pc = "cancelling"
    /\ futures' = [futures EXCEPT ![pending_future] = Cancel(futures[pending_future])]
    /\ IF pending_future < Len(futures)
       THEN /\ pending_future' = pending_future + 1
            /\ pc' = pc
       ELSE /\ pending_future' = 0
            /\ pc' = "shutdown"
    /\ UNCHANGED <<query_descriptors, top_k, all_results, results, search_method, hybridVars>>
    /\ UNCHANGED <<matcherVars, scorerVars, httpVars, envVars>>

\* lines 664-679: as_completed yields future b, which holds no early stop
AsCompletedExtend(b) ==
    /\ pc = "as_completed"
    /\ futures[b].state = "FINISHED" /\ ~futures[b].yielded
    /\ EarlyStopped(futures[b].result) = <<>>
    /\ all_results' = all_results \o futures[b].result
    /\ futures' = [futures EXCEPT ![b].yielded = TRUE]
    /\ UNCHANGED <<query_descriptors, top_k, pc, pending_future, results, search_method, hybridVars>>
    /\ UNCHANGED <<matcherVars, scorerVars, httpVars, envVars>>

\* lines 684-687: every future was consumed
ParallelReturn ==
    /\ pc = "as_completed"
    /\ \A b \in 1..Len(futures) : futures[b].yielded
    /\ results' = SliceTo(SortByScoreDesc(all_results), top_k)
    /\ pc' = "done"
    /\ UNCHANGED <<query_descriptors, top_k, futures, all_results, pending_future, search_method, hybridVars>>
    /\ UNCHANGED <<matcherVars, scorerVars, httpVars, envVars>>

\* variant of ExecutorShutdown that does not wait for the workers, as
\* shutdown(wait=False) would; used to measure the sensitivity of C33
ExecutorShutdownNoWait ==
    /\ pc = "shutdown"
    /\ pc' = "done"
    /\ UNCHANGED <<query_descriptors, top_k, futures, all_results, pending_future, results,
                   search_method, hybridVars>>
    /\ UNCHANGED <<matcherVars, scorerVars, httpVars, envVars>>

\* the with block's exit after return [result]: shutdown(wait=True)
ExecutorShutdown ==
    /\ pc = "shutdown"
    /\ Running = {}
    /\ pc' = "done"
    /\ UNCHANGED <<query_descriptors, top_k, futures, all_results, pending_future, results,
                   search_method, hybridVars>>
    /\ UNCHANGED <<matcherVars, scorerVars, httpVars, envVars>>

---------------------------------------------------------------------------
(* POST /searchtest: search_test_best_match, after its call of             *)
(* search_similar_images(query_image, top_k=1) has returned                *)

\* os.path.exists(os.path.join(matcher.database_path, image_path))
OnDisk(image_path) ==
    /\ collection.exists
    /\ \E i \in 1..Len(collection.files) : collection.files[i].image_path = image_path

\* lines 918-942: the status and the headers of the response
BestMatchResponse(found) ==
    IF found = <<>>
    THEN [status |-> 404, detail |-> "Nenhuma imagem similar encontrada"]
    ELSE IF ~OnDisk(found[1].image_path)
    THEN [status |-> 404, detail |-> "Arquivo de imagem nao encontrado no disco"]
    ELSE [status |-> 200,
          image_path |-> found[1].image_path,
          similarity_score |-> found[1].similarity_score]

\* lines 916-942
SearchTestBestMatch ==
    /\ pc = "done"
    /\ top_k = 1
    /\ response' = BestMatchResponse(results)
    /\ pc' = "responded"
    /\ UNCHANGED <<query_descriptors, top_k, futures, all_results, pending_future, results,
                   search_method, request, config_before, hybridVars>>
    /\ UNCHANGED <<matcherVars, scorerVars, envVars>>

Next ==
    \/ \E query \in Queries, k \in TopKs : SearchEmptyQuery(query, k)
    \/ \E query \in Queries, k \in TopKs : SearchHybrid(query, k)
    \/ \E query \in Queries, k \in TopKs : SearchSequential(query, k)
    \/ \E query \in Queries, k \in TopKs : SearchParallelSubmit(query, k)
    \/ \E b \in 1..Len(futures) : WorkerStart(b)
    \/ \E b \in 1..Len(futures) : WorkerFinish(b)
    \/ \E b \in 1..Len(futures) : AsCompletedEarlyStop(b)
    \/ CancelPending
    \/ \E b \in 1..Len(futures) : AsCompletedExtend(b)
    \/ ParallelReturn
    \/ ExecutorShutdown
    \/ SearchTestBestMatch

Spec == Init /\ [][Next]_vars


---------------------------------------------------------------------------
(* Properties of the search strategies, checked under Spec *)

Done == pc = "done"

\* the exact score of the stored image at position i against the query
TrueScore(i) == Score(query_descriptors, database_features[i].descriptors)

\* the position in the store of an image path
PositionOf(image_path) ==
    CHOOSE i \in 1..Len(database_features) :
        database_features[i].image_path = image_path

StorePositions == 1..Len(database_features)

EarlyStopLevel == Pct(config.early_stop_threshold)
MinLevel == Pct(config.min_threshold)

\* some stored image scores at least earlyStopThreshold
SomeImageReachesEarlyStop == \E i \in StorePositions : TrueScore(i) >= EarlyStopLevel

ExactStrategy == search_method \in {"sequential", "parallel"}

\* C1: when some stored image scores >= earlyStopThreshold against a
\* non-empty query, the Sequential and the Parallel strategy return exactly
\* one result, a stored image with its exact score, and that score is
\* >= earlyStopThreshold, whatever the order in which the batches complete.
C1_EarlyStopReturnsOne ==
    (Done /\ ExactStrategy /\ SomeImageReachesEarlyStop) =>
        /\ Len(results) = 1
        /\ results[1].similarity_score >= EarlyStopLevel
        /\ results[1].image_path \in {database_features[i].image_path : i \in StorePositions}
        /\ results[1].similarity_score = TrueScore(PositionOf(results[1].image_path))

\* a parallel search over two batches, each holding an image above the
\* threshold, is answered with the image of the second batch
C1_Witness ==
    /\ Done /\ search_method = "parallel" /\ Len(futures) = 2
    /\ TrueScore(1) >= EarlyStopLevel
    /\ TrueScore(BatchSizeMin + 1) >= EarlyStopLevel
    /\ Len(results) = 1
    /\ results[1].image_path = BatchSizeMin + 1

\* Phase 1 of the search the state records
ResolvedNow == Phase1(config, annoy_index, annoy_id_to_image, query_descriptors)

\* the score the running strategy ranks the stored image at position i by:
\* the hybrid score under the Hybrid strategy, the exact score otherwise
CandidateScore(i) ==
    IF search_method = "hybrid"
    THEN HybridScore(TrueScore(i),
                     AnnoyAvg(ResolvedNow, database_features[i].image_path))
    ELSE TrueScore(i)

Searched == Done /\ search_method \in {"hybrid", "sequential", "parallel"}

\* no candidate of the running strategy reaches earlyStopThreshold
NoCandidateReachesEarlyStop ==
    \A i \in StorePositions : CandidateScore(i) < EarlyStopLevel

\* the candidates that reach minThreshold
Qualifying == {i \in StorePositions : CandidateScore(i) >= MinLevel}

\* the store positions of the returned images
Returned == {PositionOf(results[n].image_path) : n \in 1..Len(results)}

\* C3: in every strategy the returned list is sorted by non-increasing
\* similarity score.
C3_SortedDescending ==
    Done => \A m, n \in 1..Len(results) :
                m < n => results[m].similarity_score >= results[n].similarity_score

\* a parallel search returns two images of different scores, the one stored
\* later first
C3_Witness ==
    /\ Done /\ search_method = "parallel" /\ Len(results) = 2
    /\ results[1].similarity_score > results[2].similarity_score
    /\ results[1].image_path > results[2].image_path

\* C4: when no early stop fires, results of equal score appear in the order
\* in which their images are iterated from the store, and of two images of
\* equal score at the topK cut the one stored earlier is kept, in the
\* Sequential and in the Parallel strategy.
C4_TiesInStoreOrder ==
    (Done /\ ExactStrategy /\ ~SomeImageReachesEarlyStop) =>
        /\ \A m, n \in 1..Len(results) :
              (m < n /\ results[m].similarity_score = results[n].similarity_score)
                  => PositionOf(results[m].image_path) < PositionOf(results[n].image_path)
        /\ \A r \in Returned : \A c \in Qualifying \ Returned :
              TrueScore(c) = TrueScore(r) => r < c

\* the batch results of batches b..n, in submission order
RECURSIVE BatchesInOrder(_, _)
BatchesInOrder(b, n) ==
    IF b > n THEN <<>>
    ELSE calculate_similarity_batch(config, database_metadata, query_descriptors,
                                    Batch(database_features, config.batch_size, b))
         \o BatchesInOrder(b + 1, n)

\* the list a parallel search returns when its batches complete in
\* submission order
InOrderResults ==
    SliceTo(SortByScoreDesc(BatchesInOrder(1, Len(futures))), top_k)

\* C5: when no early stop fires, a parallel search returns the same ranked
\* list for every order in which its batches complete: the list it returns
\* when they complete in submission order.
C5_ParallelDeterministic ==
    (Done /\ search_method = "parallel" /\ ~SomeImageReachesEarlyStop) =>
        results = InOrderResults

\* no two stored images that reach minThreshold have the same score
NoEqualScores ==
    \A i, j \in StorePositions :
        (i # j /\ TrueScore(i) >= MinLevel /\ TrueScore(j) >= MinLevel)
            => TrueScore(i) # TrueScore(j)

\* the places <<b, n>> of the batches that hold the stored image at position i
BatchPlaces(i) ==
    {place \in (1..Len(futures)) \X (1..config.batch_size) :
        /\ place[2] <= Len(Batch(database_features, config.batch_size, place[1]))
        /\ Batch(database_features, config.batch_size, place[1])[place[2]].image_path
               = database_features[i].image_path}

\* C35: when no stored image reaches earlyStopThreshold and no two
\* qualifying images have equal scores, a parallel search returns the list
\* the sequential search returns for the same store, query, topK and
\* thresholds (same images, same scores, same order), whatever batch_size,
\* max_workers and the order in which the batches complete; and the batches
\* hold every stored image exactly once.
C35_ParallelEqualsSequential ==
    (Done /\ search_method = "parallel") =>
        /\ \A i \in StorePositions : Cardinality(BatchPlaces(i)) = 1
        /\ (~SomeImageReachesEarlyStop /\ NoEqualScores) =>
               results = search_sequential(config, database_features, database_metadata,
                                           query_descriptors, top_k)

\* a parallel search over two batches, the second yielded first, returned
\* an image of each batch, of different scores
C35_Witness ==
    /\ Done /\ search_method = "parallel" /\ Len(futures) = 2
    /\ ~SomeImageReachesEarlyStop /\ NoEqualScores
    /\ Len(all_results) >= 2 /\ all_results[1].image_path > BatchSizeMin
    /\ Len(results) = 2
    /\ results[1].image_path <= BatchSizeMin /\ results[2].image_path > BatchSizeMin

\* C6: in every strategy, when no candidate reaches earlyStopThreshold, the
\* list holds at most topK results, each of a distinct candidate with its
\* score >= minThreshold, as many as topK and the qualifying candidates
\* allow, and no qualifying candidate left out scores higher than one
\* returned.
C6_TopKAboveMinThreshold ==
    (Searched /\ NoCandidateReachesEarlyStop) =>
        /\ Len(results) <= top_k
        /\ Len(results) = Min(top_k, Cardinality(Qualifying))
        /\ Cardinality(Returned) = Len(results)
        /\ \A n \in 1..Len(results) :
              /\ results[n].similarity_score >= MinLevel
              /\ results[n].similarity_score =
                     CandidateScore(PositionOf(results[n].image_path))
        /\ \A r \in Returned : \A c \in Qualifying \ Returned :
              CandidateScore(c) <= CandidateScore(r)

\* a hybrid search for the single best of two qualifying candidates, the
\* better one stored second
C6_Witness ==
    /\ Searched /\ NoCandidateReachesEarlyStop
    /\ search_method = "hybrid"
    /\ top_k = 1 /\ Len(results) = 1
    /\ Cardinality(Qualifying) = 2
    /\ results[1].image_path = 2
    /\ CandidateScore(1) < results[1].similarity_score

\* C7: in every strategy, when no candidate scores >= minThreshold the
\* returned list is empty, also when earlyStopThreshold < minThreshold.
C7_NothingBelowMinThreshold ==
    (Searched /\ Qualifying = {}) => results = <<>>

\* C8: a query in which no descriptors are found is answered with the empty
\* list in every strategy, also when minThreshold is 0.
C8_EmptyQueryEmptyList ==
    (Done /\ query_descriptors = <<>>) => results = <<>>

\* a query without descriptors answered over a non-empty store with
\* minThreshold 0, where the Sequential strategy is configured
C8_Witness ==
    /\ Done /\ query_descriptors = <<>> /\ results = <<>>
    /\ config.min_threshold = 0
    /\ database_features # <<>>
    /\ ~config.use_annoy /\ ~config.use_parallel_search

\* the run of the loop of _search_sequential on the store and the query of
\* the state
SequentialRun ==
    SequentialLoop(config, database_features, database_metadata,
                   query_descriptors, 1, <<>>)

\* the first image, in the iteration order of the store, whose exact score
\* is at least earlyStopThreshold
FirstReachingEarlyStop ==
    CHOOSE i \in StorePositions :
        /\ TrueScore(i) >= EarlyStopLevel
        /\ \A j \in 1..(i - 1) : TrueScore(j) < EarlyStopLevel

\* C26: when the Sequential strategy early-stops, its single result is the
\* first image in store iteration order whose score is >= earlyStopThreshold,
\* and the loop scored no image after it.
C26_SequentialStopsAtFirst ==
    (Done /\ search_method = "sequential" /\ SomeImageReachesEarlyStop) =>
        /\ Len(results) = 1
        /\ results[1].image_path = database_features[FirstReachingEarlyStop].image_path
        /\ results[1].similarity_score = TrueScore(FirstReachingEarlyStop)
        /\ SequentialRun.images_processed = FirstReachingEarlyStop

\* a sequential search stopped at the first image although the second
\* scores higher
C26_Witness ==
    /\ Done /\ search_method = "sequential"
    /\ Len(database_features) >= 2
    /\ Len(results) = 1 /\ results[1].image_path = 1
    /\ TrueScore(1) >= EarlyStopLevel
    /\ TrueScore(2) > TrueScore(1)

\* C27: the Hybrid strategy applies earlyStopThreshold to the hybrid score
\* as the Sequential strategy applies it to the exact score: when some
\* candidate's hybrid score is >= earlyStopThreshold, one candidate with such
\* a score is returned alone, also when that score is below minThreshold.
C27_HybridThresholdsAsSequential ==
    (Done /\ search_method = "hybrid"
          /\ \E i \in StorePositions : CandidateScore(i) >= EarlyStopLevel) =>
        /\ Len(results) = 1
        /\ results[1].similarity_score >= EarlyStopLevel
        /\ results[1].similarity_score
               = CandidateScore(PositionOf(results[1].image_path))

\* the (annoy_id, distance) pairs the index returned for the query of the
\* state
HitsNow == Phase1Hits(annoy_index, query_descriptors, SearchKExpanded(config))

\* the distances of the returned slots the mapping resolves to image_path
DistancesTo(image_path) ==
    LET hits == SelectSeq(HitsNow, LAMBDA h :
                    /\ ToString(h.annoy_id) \in DOMAIN annoy_id_to_image
                    /\ annoy_id_to_image[ToString(h.annoy_id)] = image_path)
    IN  [n \in 1..Len(hits) |-> hits[n].distance]

\* max(0, 1 - distance / 2) summed over distances, in units of 1/200
ApproximateSum(distances) ==
    SeqSum([n \in 1..Len(distances) |->
               IF distances[n] >= 200 THEN 0 ELSE 200 - distances[n]])

\* mean, in score units, is sum / count for a sum in units of 1/200:
\* 200 * count * mean = ScoreDen * sum, in numbers that stay small
IsMean(mean, sum, count) ==
    /\ sum - count * (mean \div (ScoreDen \div 200)) \in 0..count
    /\ count * (mean % (ScoreDen \div 200))
           = (ScoreDen \div 200) * (sum - count * (mean \div (ScoreDen \div 200)))

\* C29: every result of the Hybrid strategy has similarity_score =
\* 0.7 * exact score + 0.3 * mean of the per-descriptor approximate
\* similarities max(0, 1 - distance/2) of the slots that resolved to the
\* image; the distances lie in [0, 2] and the score in [0, 1].
C29_HybridScoreFormula ==
    (Done /\ search_method = "hybrid") =>
        \A n \in 1..Len(results) :
            LET r == results[n]
                distances == DistancesTo(r.image_path)
            IN  /\ distances # <<>>
                /\ \A d \in 1..Len(distances) : distances[d] \in 0..200
                /\ IsMean(r.match_details.annoy_similarity, ApproximateSum(distances),
                          Len(distances))
                /\ r.match_details.orb_similarity = TrueScore(PositionOf(r.image_path))
                /\ r.match_details.orb_similarity % 10 = 0
                /\ r.match_details.annoy_similarity % 10 = 0
                /\ r.similarity_score
                       = 7 * (r.match_details.orb_similarity \div 10)
                         + 3 * (r.match_details.annoy_similarity \div 10)
                /\ r.similarity_score \in 0..ScoreDen

\* a hybrid result whose exact score and approximate mean differ and are
\* both positive
C29_Witness ==
    /\ Done /\ search_method = "hybrid"
    /\ \E n \in 1..Len(results) :
          /\ results[n].match_details.orb_similarity > 0
          /\ results[n].match_details.annoy_similarity > 0
          /\ results[n].match_details.orb_similarity
                 # results[n].match_details.annoy_similarity
          /\ Len(DistancesTo(results[n].image_path)) >= 2

\* the batches as_completed has yielded that carry an early stop
YieldedEarlyStops ==
    {b \in 1..Len(futures) : futures[b].yielded /\ EarlyStopped(futures[b].result) # <<>>}

\* the caller of _search_parallel has seen an early stop
EarlyStopSeen == pc \in {"cancelling", "shutdown"}

\* C24: once the caller of the Parallel strategy has seen an early stop in a
\* completed batch, the returned list is decided, once, as the first early
\* stop of that batch, the first yielded batch that carries one; when the
\* loop over the futures ends no task is left waiting, a cancelled task never
\* starts, a running task keeps running until it finishes with the result of
\* its whole batch, the search returns only after every running task has
\* finished, and what those tasks computed is not in the returned list.
C24_EarlyStopCancelsPending ==
    [][/\ \A a \in 1..Len(futures) :
              /\ futures[a].state = "CANCELLED" => futures'[a] = futures[a]
              /\ (EarlyStopSeen /\ futures[a].state = "RUNNING") =>
                     \/ futures'[a] = futures[a]
                     \/ futures'[a] =
                            [futures[a] EXCEPT
                                !.state = "FINISHED",
                                !.result = calculate_similarity_batch(config,
                                    database_metadata, query_descriptors,
                                    Batch(database_features, config.batch_size, a))]
       /\ (pc = "as_completed" /\ pc' = "cancelling") =>
              /\ YieldedEarlyStops = {}
              /\ \E b \in 1..Len(futures) :
                    /\ futures[b].state = "FINISHED"
                    /\ YieldedEarlyStops' = {b}
                    /\ results' = <<Head(EarlyStopped(futures[b].result))>>
       /\ EarlyStopSeen =>
              /\ results' = results
              /\ pc' \in {"cancelling", "shutdown", "done"}
              /\ YieldedEarlyStops' = YieldedEarlyStops
       /\ (pc = "cancelling" /\ pc' = "shutdown") =>
              \A a \in 1..Len(futures) : futures'[a].state \in {"CANCELLED", "RUNNING", "FINISHED"}
       /\ (pc = "shutdown" /\ pc' = "done") =>
              \A a \in 1..Len(futures) : futures'[a].state \in {"CANCELLED", "FINISHED"}
      ]_vars

\* a parallel search returned the early stop of one batch while the other
\* batch, running when the early stop was seen, finished with an early stop
\* of its own that is not returned
C24_Witness ==
    /\ Done /\ search_method = "parallel" /\ Len(futures) = 2
    /\ Len(results) = 1
    /\ \E a \in 1..Len(futures) :
          /\ futures[a].state = "FINISHED" /\ ~futures[a].yielded
          /\ EarlyStopped(futures[a].result) # <<>>
          /\ results[1] \notin {futures[a].result[n] : n \in 1..Len(futures[a].result)}

\* POST /searchtest has answered a search that chose a strategy
BestMatchAnswered == pc = "responded" /\ search_method # None

\* C22: POST /searchtest returns the image with the highest similarity: when
\* it answers with a match, no image of the store has a strictly higher
\* score than the returned one, and when no image reaches minThreshold it
\* answers not-found.
C22_SearchBestReturnsHighest ==
    BestMatchAnswered =>
        /\ response.status = 200 =>
               \A i \in StorePositions : CandidateScore(i) <= response.similarity_score
        /\ Qualifying = {} => response.status = 404

---------------------------------------------------------------------------
(* The end-to-end scenario: a sequential search, with early_stop_threshold *)
(* 0.9, for the descriptors of the first of three stored images, the other *)
(* two images holding no descriptor close to any of them                   *)

\* no descriptor of d is within the widest match tier of a descriptor of q
NothingClose(q, d) ==
    \A i \in 1..Len(q), j \in 1..Len(d) : Distance(q[i], d[j]) >= DecentDistance

ScenarioStores ==
    {<<[image_path |-> 1, descriptors |-> d1],
       [image_path |-> 2, descriptors |-> <<d2>>],
       [image_path |-> 3, descriptors |-> <<d3>>]>> :
        d1 \in DescriptorSets \ {<<>>}, d2 \in DescriptorPool, d3 \in DescriptorPool}

InitScenario ==
    /\ \E features \in ScenarioStores :
          /\ NothingClose(features[1].descriptors, features[2].descriptors)
          /\ NothingClose(features[1].descriptors, features[3].descriptors)
          /\ MatcherOver([DefaultConfig EXCEPT !.use_annoy = FALSE,
                                               !.use_parallel_search = FALSE,
                                               !.early_stop_threshold = 90],
                         features)
    /\ Idle
    /\ NoRequest
    /\ NoScorerCall
    /\ Deployed

NextScenario ==
    \E k \in TopKs : SearchSequential(database_features[1].descriptors, k)

SpecScenario == InitScenario /\ [][NextScenario]_vars

\* C25: in the scenario the search returns exactly one result, image 1, with
\* a score of approximately 1.0 (within a hundredth).
C25_IdenticalImageScoresOne ==
    Done =>
        /\ Len(results) = 1
        /\ results[1].image_path = 1
        /\ results[1].similarity_score >= Pct(99)

---------------------------------------------------------------------------
(* The Hybrid strategy over files of different builds.  annoy_index.ann,   *)
(* annoy_mapping.json and features_cache.pkl are written one after the     *)
(* other (save_annoy_index, save_cache) and loaded without being compared  *)
(* (load_annoy_index, load_cache), so the matcher can hold the index of    *)
(* one build, the slot mapping of another and the store of a third.        *)

\* the stores of one or two images a build may have run over
BuildStores == StoresOfSize(1) \cup StoresOfSize(2)

\* the index of the build over indexed with the mappings of the build over
\* mapped
StaleIndex(indexed, mapped) ==
    [annoy_index |-> build_annoy_index(indexed).annoy_index,
     annoy_id_to_image |-> build_annoy_index(mapped).annoy_id_to_image,
     annoy_id_to_descriptor_idx |-> build_annoy_index(mapped).annoy_id_to_descriptor_idx]

InitStale ==
    /\ \E cfg \in SearchConfigs, indexed \in BuildStores, mapped \in BuildStores,
          features \in BuildStores \cup {<<>>} :
          /\ cfg.use_annoy /\ ~cfg.use_parallel_search
          /\ MatcherHolds(cfg, features, StaleIndex(indexed, mapped))
    /\ Idle
    /\ NoRequest
    /\ NoScorerCall
    /\ Deployed

NextStale == \E query \in Queries, k \in TopKs : SearchHybrid(query, k)

SpecStale == InitStale /\ [][NextStale]_vars

\* the positions of the returned slots the mapping does not resolve
UnmappedHits ==
    {n \in 1..Len(HitsNow) : ToString(HitsNow[n].annoy_id) \notin DOMAIN annoy_id_to_image}

\* the image paths of the store
StoreKeys == {database_features[i].image_path : i \in StorePositions}

\* C30: with a slot mapping or a store that is stale the Hybrid strategy
\* answers every query without raising, Phase 1 drops exactly the returned
\* slots that have no entry in the slot mapping, and every returned image is
\* an image of the store, with its hybrid score.
C30_StaleHybridStaysInStore ==
    /\ pc = "idle" =>
           \A query \in Queries \ {<<>>}, k \in TopKs :
               \A iteration \in IterationOrders(CandidateImages(
                      Phase1(config, annoy_index, annoy_id_to_image, query))) :
                   Len(search_with_annoy(config, database_features, database_metadata,
                                         annoy_index, annoy_id_to_image, query, k,
                                         iteration)) \in 0..k
    /\ (Done /\ search_method = "hybrid") =>
           /\ Len(ResolvedNow) = Len(HitsNow) - Cardinality(UnmappedHits)
           /\ \A n \in 1..Len(results) :
                 /\ results[n].image_path \in StoreKeys
                 /\ results[n].image_path \in CandidateImages(ResolvedNow)
                 /\ results[n].similarity_score
                        = CandidateScore(PositionOf(results[n].image_path))

\* a hybrid search returned an image although the index returned a slot the
\* mapping does not hold and the mapping named an image the store does not
\* hold
C30_Witness ==
    /\ Done /\ search_method = "hybrid"
    /\ UnmappedHits # {}
    /\ CandidateImages(ResolvedNow) \ StoreKeys # {}
    /\ results # <<>>

---------------------------------------------------------------------------
(* The Sequential and the Parallel strategy over a store in which one      *)
(* image holds a descriptor set the matcher cannot score                   *)

\* the store features with the descriptor set at position failing replaced
WithDescriptors(features, failing, descriptors) ==
    [i \in 1..Len(features) |->
        IF i = failing THEN [features[i] EXCEPT !.descriptors = descriptors]
        ELSE features[i]]

FaultyStores ==
    {WithDescriptors(features, failing, Malformed) :
        features \in Stores, failing \in VariedPositions \cup {2}}

InitFaulty ==
    /\ \E cfg \in SearchConfigs, features \in FaultyStores :
          /\ ~cfg.use_annoy
          /\ \E i \in 1..Len(features) : features[i].descriptors = Malformed
          /\ MatcherHolds(cfg, features, Unbuilt)
    /\ Idle
    /\ NoRequest
    /\ NoScorerCall
    /\ Deployed

NextFaulty ==
    \/ \E query \in Queries, k \in TopKs : SearchEmptyQuery(query, k)
    \/ \E query \in Queries, k \in TopKs : SearchSequential(query, k)
    \/ \E query \in Queries, k \in TopKs : SearchParallelSubmit(query, k)
    \/ \E b \in 1..Len(futures) : WorkerStart(b)
    \/ \E b \in 1..Len(futures) : WorkerFinish(b)
    \/ \E b \in 1..Len(futures) : AsCompletedEarlyStop(b)
    \/ CancelPending
    \/ \E b \in 1..Len(futures) : AsCompletedExtend(b)
    \/ ParallelReturn
    \/ ExecutorShutdown

SpecFaulty == InitFaulty /\ [][NextFaulty]_vars

\* the position of the image that cannot be scored
Failing == CHOOSE i \in StorePositions : database_features[i].descriptors = Malformed

\* the store with, in place of the image that cannot be scored, an image
\* whose descriptors are far from every query descriptor
Scorable == WithDescriptors(database_features, Failing, Filler)

\* the results of the batches as_completed yielded without an early stop
YieldedResults ==
    UNION {{futures[b].result[n] : n \in 1..Len(futures[b].result)} :
              b \in {a \in 1..Len(futures) :
                        futures[a].yielded /\ a \notin YieldedEarlyStops}}

\* C21: a scoring failure on one stored image counts as the score 0.0 of
\* that image alone: the Sequential strategy returns what it returns over
\* the same store with a scorable image of score 0 in its place, every batch
\* task of the Parallel strategy yields what it yields over that store, the
\* other images of the failing image's batch included, and no batch is lost
\* to the caller.
C21_ScoringFailureIsZeroForOneImage ==
    /\ \A query \in Queries : Score(query, Filler) = 0 /\ Score(query, Malformed) = 0
    /\ (Done /\ search_method = "sequential") =>
           results = search_sequential(config, Scorable, database_metadata,
                                       query_descriptors, top_k)
    /\ search_method = "parallel" =>
           /\ \A b \in 1..Len(futures) :
                 futures[b].state = "FINISHED" =>
                     futures[b].result =
                         calculate_similarity_batch(config, database_metadata,
                             query_descriptors, Batch(Scorable, config.batch_size, b))
           /\ {all_results[n] : n \in 1..Len(all_results)} = YieldedResults
           /\ (Done /\ YieldedEarlyStops = {}) =>
                  /\ \A b \in 1..Len(futures) : futures[b].yielded
                  /\ results = SliceTo(SortByScoreDesc(all_results), top_k)

\* a parallel search returned an image of the batch that holds the image
\* that cannot be scored, with a positive score, and the failing image with
\* score 0
C21_Witness ==
    /\ Done /\ search_method = "parallel"
    /\ Len(results) = 2
    /\ results[1].similarity_score > 0
    /\ results[2].image_path = Failing /\ results[2].similarity_score = 0
    /\ (results[1].image_path - 1) \div config.batch_size
           = (Failing - 1) \div config.batch_size

---------------------------------------------------------------------------
(* The parallel search with threads that are scheduled: while a worker or *)
(* the thread of the request can take a step, one of them does            *)

\* a step of a worker or of the thread of the request
ParallelStep ==
    \/ \E b \in 1..Len(futures) : WorkerStart(b)
    \/ \E b \in 1..Len(futures) : WorkerFinish(b)
    \/ \E b \in 1..Len(futures) : AsCompletedEarlyStop(b)
    \/ \E b \in 1..Len(futures) : AsCompletedExtend(b)
    \/ CancelPending
    \/ ParallelReturn
    \/ ExecutorShutdown

\* some thread that can take a step takes one
Fairness == WF_vars(ParallelStep)

\* the parallel strategy over collections of two batches, the second of one
\* image, with one worker and with two
InitFair ==
    /\ \E cfg \in SearchConfigs, features \in StoresOfSize(MaxImages) :
          /\ ~cfg.use_annoy /\ cfg.use_parallel_search
          /\ cfg.batch_size = BatchSizeMin
          /\ cfg.min_threshold = DefaultConfig.min_threshold
          /\ cfg.early_stop_threshold \in {50, DefaultConfig.early_stop_threshold}
          /\ features[BatchSizeMin].descriptors = Filler
          /\ MatcherHolds(cfg, features, Unbuilt)
    /\ Idle
    /\ NoRequest
    /\ NoScorerCall
    /\ Deployed

NextFair ==
    \/ \E query \in Queries, k \in TopKs : SearchEmptyQuery(query, k)
    \/ \E query \in Queries, k \in TopKs : SearchParallelSubmit(query, k)
    \/ \E b \in 1..Len(futures) : WorkerStart(b)
    \/ \E b \in 1..Len(futures) : WorkerFinish(b)
    \/ \E b \in 1..Len(futures) : AsCompletedEarlyStop(b)
    \/ CancelPending
    \/ \E b \in 1..Len(futures) : AsCompletedExtend(b)
    \/ ParallelReturn
    \/ ExecutorShutdown

SpecFair == InitFair /\ [][NextFair]_vars /\ Fairness

\* _search_parallel has returned
ParallelReturned == search_method = "parallel" /\ Done

\* every task has completed or was cancelled
TasksSettled ==
    \A b \in 1..Len(futures) : futures[b].state \in {"FINISHED", "CANCELLED"}

\* C33: every parallel search terminates: once the batch tasks are
\* submitted, _search_parallel eventually returns, and when it has returned
\* every task has completed or was cancelled, none is running or waiting.
C33_ParallelSearchTerminates ==
    /\ (search_method = "parallel" /\ pc = "as_completed") ~> ParallelReturned
    /\ [](ParallelReturned => TasksSettled)

\* a parallel search over two batches returned on an early stop of one
\* batch after the other task was cancelled
C33_Witness ==
    /\ ParallelReturned
    /\ \E a, b \in 1..Len(futures) :
          /\ futures[a].state = "CANCELLED"
          /\ futures[b].state = "FINISHED" /\ EarlyStopped(futures[b].result) # <<>>

---------------------------------------------------------------------------
(* The scorer on its own: ImageMatcher.calculate_similarity applied to any *)
(* two descriptor sets                                                     *)

InitScorer ==
    /\ MatcherOver(DefaultConfig, <<>>)
    /\ query_descriptors \in DescriptorSets
    /\ db_descriptors \in DescriptorSets
    /\ similarity = 0
    /\ top_k = 0
    /\ pc = "idle"
    /\ futures = NoFutures
    /\ all_results = <<>>
    /\ pending_future = 0
    /\ NoPhase2
    /\ results = <<>>
    /\ search_method = None
    /\ NoRequest
    /\ Deployed

CalculateSimilarity ==
    /\ pc = "idle"
    /\ similarity' = calculate_similarity(query_descriptors, db_descriptors)
    /\ pc' = "done"
    /\ UNCHANGED <<query_descriptors, db_descriptors, top_k, futures, all_results, pending_future,
                   results, search_method, hybridVars>>
    /\ UNCHANGED <<matcherVars, httpVars, envVars>>

NextScorer == CalculateSimilarity

SpecScorer == InitScorer /\ [][NextScorer]_vars

\* C2: for any two descriptor sets the scorer returns a score within
\* [0.0, 1.0], and exactly 0.0 when either set is empty.
C2_ScoreWithinUnitInterval ==
    Done =>
        /\ 0 <= similarity /\ similarity <= ScoreDen
        /\ (query_descriptors = <<>> \/ db_descriptors = <<>>) => similarity = 0

\* the scorer applied to two equal sets of MaxDesc descriptors: every part
\* of the score is at its maximum
C2_Witness ==
    /\ Done
    /\ Len(query_descriptors) = MaxDesc
    /\ db_descriptors = query_descriptors
    /\ similarity > Pct(90)

\* min(len(descriptors1), len(descriptors2)) for the two sets of the state
TotalFeaturesOfState == Min(Len(query_descriptors), Len(db_descriptors))

\* the score of the two sets of the state, taken the other way round
SimilarityReversed == calculate_similarity(db_descriptors, query_descriptors)

\* C39 as stated: the scorer is symmetric, calculate_similarity(A, B) =
\* calculate_similarity(B, A) for all descriptor sets A and B.
C39_ScorerSymmetric ==
    Done => similarity = SimilarityReversed

\* C39 as amended: calculate_similarity(A, B) = calculate_similarity(B, A)
\* whenever A or B holds at most one descriptor.
C39_SymmetricOnSingleDescriptor ==
    (Done /\ TotalFeaturesOfState <= 1) => similarity = SimilarityReversed

\* one descriptor scored against two: the nearer of the two is its match
C39_Witness ==
    /\ Done
    /\ Len(query_descriptors) = 1 /\ Len(db_descriptors) = 2
    /\ db_descriptors[1] # db_descriptors[2]
    /\ similarity > 0

\* matches of line 399 for the two sets of the state
MatchesNow == BFMatchCrossCheck(query_descriptors, db_descriptors)

\* total_features of line 413
TotalFeaturesNow == Min(Len(query_descriptors), Len(db_descriptors))

\* the matches of the given tier, as a set
Tier(limit) ==
    {MatchesBelow(MatchesNow, limit)[n] : n \in 1..Len(MatchesBelow(MatchesNow, limit))}

\* C31: the matches the scorer retains are a one-to-one partial matching:
\* no query descriptor and no candidate descriptor occurs in two matches,
\* so there are at most min(|query|, |candidate|) matches; the excellent
\* matches are among the good ones and the good among the decent, so
\* 0 <= excellent_ratio <= good_ratio <= decent_ratio <= 1.
C31_MatchesOneToOneTiersNested ==
    (Done /\ query_descriptors # <<>> /\ db_descriptors # <<>>) =>
        /\ \A m, n \in 1..Len(MatchesNow) :
              m # n => /\ MatchesNow[m].queryIdx # MatchesNow[n].queryIdx
                       /\ MatchesNow[m].trainIdx # MatchesNow[n].trainIdx
        /\ \A m \in 1..Len(MatchesNow) :
              /\ MatchesNow[m].queryIdx \in 1..Len(query_descriptors)
              /\ MatchesNow[m].trainIdx \in 1..Len(db_descriptors)
        /\ Len(MatchesNow) <= TotalFeaturesNow
        /\ Tier(ExcellentDistance) \subseteq Tier(GoodDistance)
        /\ Tier(GoodDistance) \subseteq Tier(DecentDistance)
        /\ Cardinality(Tier(ExcellentDistance)) <= Cardinality(Tier(GoodDistance))
        /\ Cardinality(Tier(GoodDistance)) <= Cardinality(Tier(DecentDistance))
        /\ Cardinality(Tier(DecentDistance)) <= TotalFeaturesNow

\* the scorer applied to two sets of two descriptors: the cross check kept
\* one match of the two nearest pairs, and it is good without being
\* excellent
C31_Witness ==
    /\ Done
    /\ Len(query_descriptors) = 2 /\ Len(db_descriptors) = 2
    /\ Len(MatchesNow) = 1
    /\ Tier(ExcellentDistance) = {}
    /\ Cardinality(Tier(GoodDistance)) = 1

---------------------------------------------------------------------------
(* The configuration endpoint: one POST /performance/config on a matcher   *)
(* whose configuration earlier requests may have changed                   *)

\* the values a request may carry for each parameter: one outside and one
\* inside the accepted range; thresholds in hundredths
RequestValues ==
    [early_stop_threshold |-> {5, 50},
     min_threshold |-> {150, 60},
     max_workers |-> {0, 4},
     use_parallel_search |-> BOOLEAN,
     batch_size |-> {5, 50},
     use_annoy |-> BOOLEAN,
     annoy_search_k |-> {5, 500}]

\* the values of parameter name in a request that sends params
ValuesSent(params, name) ==
    IF name \in params THEN RequestValues[name] ELSE {AbsentValues[name]}

RequestsSending(params) ==
    {RequestOf(params, values) :
        values \in [early_stop_threshold : ValuesSent(params, "early_stop_threshold"),
                    min_threshold : ValuesSent(params, "min_threshold"),
                    max_workers : ValuesSent(params, "max_workers"),
                    use_parallel_search : ValuesSent(params, "use_parallel_search"),
                    batch_size : ValuesSent(params, "batch_size"),
                    use_annoy : ValuesSent(params, "use_annoy"),
                    annoy_search_k : ValuesSent(params, "annoy_search_k")]}

FieldNames == {ConfigFields[n] : n \in 1..Len(ConfigFields)}

\* the requests that send at most MaxFields parameters
Requests ==
    UNION {RequestsSending(params) :
               params \in {ps \in SUBSET FieldNames : Cardinality(ps) <= MaxFields}}

\* the configurations accepted requests lead to from the defaults
ReachedConfigs ==
    [early_stop_threshold : {DefaultConfig.early_stop_threshold, 50},
     min_threshold : {DefaultConfig.min_threshold, 60},
     max_workers : {DefaultConfig.max_workers, 4},
     use_parallel_search : BOOLEAN,
     batch_size : {DefaultConfig.batch_size, 50},
     use_annoy : BOOLEAN,
     annoy_search_k : {DefaultConfig.annoy_search_k, 500}]

InitConfig ==
    /\ \E cfg \in ReachedConfigs, features \in StoresOfSize(1) :
          MatcherOver(cfg, features)
    /\ Idle
    /\ NoRequest
    /\ NoScorerCall
    /\ Deployed

\* the handler leaves the matcher and the caller with outcome
Responds(outcome) ==
    /\ config' = outcome.config
    /\ response' = [status |-> outcome.status, updated |-> outcome.updated]

UpdatePerformanceConfig(req) ==
    /\ pc = "idle"
    /\ Responds(update_performance_config(config, req))
    /\ request' = req
    /\ config_before' = config
    /\ pc' = "done"
    /\ UNCHANGED <<database_features, database_metadata, annoy_index,
                   annoy_id_to_image, annoy_id_to_descriptor_idx>>
    /\ UNCHANGED <<query_descriptors, top_k, futures, all_results, pending_future, results,
                   search_method, hybridVars>>
    /\ UNCHANGED <<scorerVars, envVars>>

NextConfig == \E req \in Requests : UpdatePerformanceConfig(req)

SpecConfig == InitConfig /\ [][NextConfig]_vars

\* C9: a request to the configuration endpoint that is rejected because a
\* field is out of range leaves every configuration field as it was,
\* the valid fields of the same request included.
C9_RejectedRequestChangesNothing ==
    (Done /\ response.status = 400) => config = config_before

\* the accepted range of each numeric parameter, thresholds in hundredths
InRange(name, value) ==
    CASE name = "early_stop_threshold" -> 10 <= value /\ value <= 100
      [] name = "min_threshold" -> 0 <= value /\ value <= 100
      [] name = "max_workers" -> 1 <= value /\ value <= 16
      [] name = "batch_size" -> 10 <= value /\ value <= 200
      [] name = "annoy_search_k" -> 10 <= value /\ value <= 1000
      [] OTHER -> TRUE

\* C10: a request to the configuration endpoint that carries one field, with
\* a value in the accepted range, is accepted, sets that field to the value
\* and leaves every other configuration field, the Descriptor Store, the
\* ANN index and the slot mapping unchanged.
C10_OneValidFieldSetsOnlyThatField ==
    [][\A name \in FieldNames :
          (request'.params = {name} /\ InRange(name, request'.values[name])) =>
              /\ response'.status = 200
              /\ config'[name] = request'.values[name]
              /\ \A other \in FieldNames \ {name} : config'[other] = config[other]
              /\ UNCHANGED <<database_features, database_metadata, annoy_index,
                             annoy_id_to_image, annoy_id_to_descriptor_idx>>]_vars

\* a request carrying batch_size alone changed it on a matcher whose other
\* fields are not the defaults
C10_Witness ==
    /\ Done /\ request.params = {"batch_size"}
    /\ response.status = 200
    /\ config.batch_size = 50 /\ config_before.batch_size = 100
    /\ config.max_workers = 4 /\ ~config.use_annoy
    /\ database_features # <<>>

---------------------------------------------------------------------------
(* The life of the service: the process starts (ImageMatcher() at line     *)
(* 690), serves POST /database/rebuild, POST /annoy/rebuild and            *)
(* POST /performance/config?use_annoy=..., and stops.  The images of the   *)
(* collection change at any time: an operation that walks the directory    *)
(* finds any directory.  Cache files are lost or damaged while the         *)
(* process is down: a start finds each file as it was left, missing or     *)
(* unreadable.  The handlers are async def functions that never await:     *)
(* each runs to its end before the next request is served.                 *)

\* the images the directory may hold, in the order of os.walk: image 1
\* with two descriptors beside image 2, or image 1 alone, changed so that
\* it yields one descriptor, or image 2 alone and yielding no descriptors,
\* or no image file
CollectionFiles ==
    {<<>>,
     <<[image_path |-> 2, descriptors |-> <<>>]>>,
     <<[image_path |-> 1, descriptors |-> <<75>>]>>,
     <<[image_path |-> 1, descriptors |-> <<40, 130>>],
       [image_path |-> 2, descriptors |-> <<75>>]>>}

\* the directory database_path: missing, or holding some image files
Collections ==
    {[exists |-> FALSE, files |-> <<>>]}
    \cup {[exists |-> TRUE, files |-> files] : files \in CollectionFiles}

InitLifecycle ==
    /\ MatcherHolds(DefaultConfig, <<>>, Unbuilt)
    /\ database_metadata = <<>>
    /\ collection = [exists |-> FALSE, files |-> <<>>]
    /\ DiskIs(EmptyDisk)
    /\ operation = NoOperation
    /\ pc = "down"
    /\ query_descriptors = <<>>
    /\ top_k = 0
    /\ futures = NoFutures
    /\ all_results = <<>>
    /\ pending_future = 0
    /\ NoPhase2
    /\ results = <<>>
    /\ search_method = None
    /\ NoRequest
    /\ NoScorerCall

\* the matcher becomes m
BecomesMatcher(m) ==
    /\ config' = m.config
    /\ database_features' = m.database_features
    /\ database_metadata' = m.database_metadata
    /\ annoy_index' = m.annoy_index
    /\ annoy_id_to_image' = m.annoy_id_to_image
    /\ annoy_id_to_descriptor_idx' = m.annoy_id_to_descriptor_idx

\* the cache files become disk
BecomesDisk(disk) ==
    /\ features_cache_file' = disk.features_cache_file
    /\ metadata_cache_file' = disk.metadata_cache_file
    /\ annoy_index_file' = disk.annoy_index_file
    /\ annoy_mapping_file' = disk.annoy_mapping_file

\* the operation name ends with status and reports total
Ends(name, status, total) ==
    operation' = Op(name, status, total,
                    operation.name = name /\ operation.status = status)

LifecycleFrame ==
    UNCHANGED <<query_descriptors, top_k, futures, all_results, pending_future, results,
                search_method, scorerVars, httpVars, hybridVars>>

\* line 690 with the outcome loaded of load_or_create_database: an
\* exception ends the process
Started(loaded) ==
    IF loaded.raised
    THEN /\ pc' = "down"
         /\ BecomesMatcher(FreshMatcher)
         /\ BecomesDisk(loaded.disk)
         /\ Ends("startup", 500, 0)
    ELSE /\ pc' = "idle"
         /\ BecomesMatcher(loaded.matcher)
         /\ BecomesDisk(loaded.disk)
         /\ Ends("startup", 200, Len(loaded.matcher.database_features))

\* the cache files as a start may find them: as they were left, or one of
\* them missing or unreadable
Damaged(disk) ==
    {disk,
     [disk EXCEPT !.features_cache_file = Missing(PickleDump(<<>>))],
     [disk EXCEPT !.features_cache_file = Unreadable(PickleDump(<<>>))],
     [disk EXCEPT !.metadata_cache_file = Missing(JsonDump(<<>>))],
     [disk EXCEPT !.metadata_cache_file = Unreadable(JsonDump(<<>>))],
     [disk EXCEPT !.annoy_index_file = Missing(NoIndex)],
     [disk EXCEPT !.annoy_index_file = Unreadable(NoIndex)],
     [disk EXCEPT !.annoy_mapping_file = Missing(JsonDump(NoMapping))],
     [disk EXCEPT !.annoy_mapping_file = Unreadable(JsonDump(NoMapping))]}

\* the process starts, finding the directory and the cache files disk:
\* matcher = ImageMatcher()
Startup(directory, disk, save_ok) ==
    /\ pc = "down"
    /\ Started(load_or_create_database(FreshMatcher, directory, disk, save_ok))
    /\ collection' = directory
    /\ LifecycleFrame

\* the process stops; what it held in memory is gone
Shutdown ==
    /\ pc = "idle"
    /\ pc' = "down"
    /\ BecomesMatcher(FreshMatcher)
    /\ Ends("shutdown", 200, 0)
    /\ UNCHANGED <<collection, diskVars>>
    /\ LifecycleFrame

\* lines 742-750 with the outcome rebuilt of process_database_images
RebuildResponds(rebuilt) ==
    /\ BecomesMatcher(rebuilt.matcher)
    /\ BecomesDisk(rebuilt.disk)
    /\ IF rebuilt.raised
       THEN Ends("rebuild_database", 500, 0)
       ELSE Ends("rebuild_database", 200, Len(rebuilt.matcher.database_features))

\* POST /database/rebuild, finding the directory
RebuildDatabase(directory, save_ok) ==
    /\ pc = "idle"
    /\ RebuildResponds(process_database_images(Matcher, directory, Disk, save_ok))
    /\ collection' = directory
    /\ UNCHANGED pc
    /\ LifecycleFrame

\* lines 762-769 reporting the number of images of the store
IndexRebuiltCountingImages(m) ==
    /\ BecomesMatcher(m)
    /\ BecomesDisk(save_annoy_index(m, Disk))
    /\ Ends("rebuild_annoy_index", 200, Len(m.database_features))

\* lines 762-769 with the matcher m that build_annoy_index leaves
IndexRebuilt(m) ==
    /\ BecomesMatcher(m)
    /\ BecomesDisk(save_annoy_index(m, Disk))
    /\ Ends("rebuild_annoy_index", 200, Cardinality(DOMAIN m.annoy_id_to_image))

\* POST /annoy/rebuild
RebuildAnnoyIndex ==
    /\ pc = "idle"
    /\ IF ~config.use_annoy \/ Len(database_features) = 0
       THEN /\ Ends("rebuild_annoy_index", 400, 0)
            /\ UNCHANGED <<matcherVars, diskVars>>
       ELSE IndexRebuilt(BuildAnnoyIndex(Matcher))
    /\ UNCHANGED <<pc, collection>>
    /\ LifecycleFrame

\* POST /performance/config?use_annoy=value
SetUseAnnoy(value) ==
    /\ pc = "idle"
    /\ config' = update_performance_config(config,
                     RequestOf({"use_annoy"},
                               [AbsentValues EXCEPT !.use_annoy = value])).config
    /\ Ends("config", 200, 0)
    /\ UNCHANGED <<database_features, database_metadata, annoy_index,
                   annoy_id_to_image, annoy_id_to_descriptor_idx>>
    /\ UNCHANGED <<pc, collection, diskVars>>
    /\ LifecycleFrame

NextLifecycle ==
    \/ \E directory \in Collections, disk \in Damaged(Disk), save_ok \in BOOLEAN :
          Startup(directory, disk, save_ok)
    \/ Shutdown
    \/ \E directory \in Collections, save_ok \in BOOLEAN :
          RebuildDatabase(directory, save_ok)
    \/ RebuildAnnoyIndex
    \/ \E value \in BOOLEAN : SetUseAnnoy(value)

SpecLifecycle == InitLifecycle /\ [][NextLifecycle]_vars

---------------------------------------------------------------------------
(* Properties of the life of the service, checked under SpecLifecycle *)

\* the last operation was name and ended with status
Ended(name, status) == operation.name = name /\ operation.status = status

\* the entries of a dict kept as a sequence
Entries(dict) == {dict[i] : i \in 1..Len(dict)}

\* the keys of a dict kept as a sequence
Keys(dict) == {dict[i].image_path : i \in 1..Len(dict)}

\* the images of the directory that yield at least one descriptor
ImagesWithDescriptors ==
    {file \in Entries(collection.files) : Len(file.descriptors) > 0}

\* C11: after a successful POST /database/rebuild the Descriptor Store holds
\* exactly the images of the collection that yield at least one descriptor,
\* in database_features and in database_metadata: no image that left the
\* collection, or stopped yielding descriptors, keeps an entry.
C11_RebuildReplacesStore ==
    Ended("rebuild_database", 200) =>
        /\ Entries(database_features) = ImagesWithDescriptors
        /\ Keys(database_metadata) = Keys(database_features)

\* the in-memory store, the index and the slot mapping
storeVars ==
    <<database_features, database_metadata, annoy_index, annoy_id_to_image,
      annoy_id_to_descriptor_idx>>

\* C12: POST /database/rebuild is reported as failed when the collection
\* directory is missing and when the walk processes zero images: whenever the
\* last rebuild found no directory, or no image yielding descriptors, its
\* status is not 200.
C12_RebuildWithoutImagesFails ==
    (operation.name = "rebuild_database"
        /\ (~collection.exists \/ ImagesWithDescriptors = {}))
    => operation.status # 200

\* C13: a POST /database/rebuild that fails (status 500: missing directory,
\* or an exception after extraction) leaves database_features,
\* database_metadata, annoy_index and the slot mapping as they were before
\* the call.
C13_FailedRebuildChangesNothing ==
    [][(operation'.name = "rebuild_database" /\ operation'.status = 500)
          => UNCHANGED storeVars]_vars

\* a hybrid search can run: search_similar_images takes the branch of
\* line 470
HybridCanRun == config.use_annoy /\ annoy_index # NoIndex

\* the number of descriptors the store holds for image_path, 0 for a key
\* the store does not hold
DescriptorCount(features, image_path) ==
    IF image_path \in Keys(features)
    THEN Len(FeaturesGet(features, image_path))
    ELSE 0

\* C14: in every reachable state in which a hybrid search can run (use_annoy
\* true and annoy_index not None), every image key of the slot mapping is a
\* key of database_features and every slot's descriptor index is smaller
\* than the number of descriptors the store holds for that image.
C14_MappingWithinStore ==
    HybridCanRun =>
        \A key \in DOMAIN annoy_id_to_image :
            /\ annoy_id_to_image[key] \in Keys(database_features)
            /\ annoy_id_to_descriptor_idx[key]
                   < DescriptorCount(database_features, annoy_id_to_image[key])

\* the (image key, position) pairs of the store, positions counted from 0
StorePairs ==
    UNION {{<<database_features[i].image_path, position>> :
                position \in 0..(Len(database_features[i].descriptors) - 1)} :
           i \in StorePositions}

\* the pair the slot mapping resolves annoy_id to
SlotPair(annoy_id) ==
    <<annoy_id_to_image[ToString(annoy_id)],
      annoy_id_to_descriptor_idx[ToString(annoy_id)]>>

\* the slots 0..N-1, N the number of descriptors of the store
StoreSlots == 0..(Cardinality(StorePairs) - 1)

\* slot a comes before slot b in the order of the build: the image of a is
\* stored before the image of b, or it is the same image and the position
\* of a is the smaller
BuiltBefore(a, b) ==
    \/ PositionOf(SlotPair(a)[1]) < PositionOf(SlotPair(b)[1])
    \/ /\ SlotPair(a)[1] = SlotPair(b)[1]
       /\ SlotPair(a)[2] < SlotPair(b)[2]

\* build_annoy_index has just run to its end on the store of this state
IndexJustBuilt ==
    \/ Ended("rebuild_annoy_index", 200)
    \/ Ended("rebuild_database", 200) /\ config.use_annoy
           /\ ImagesWithDescriptors # {}

\* C15: after build_annoy_index completes the slot mapping is a bijection
\* between the integers 0..N-1, N the number of descriptors of the store,
\* and the (image key, position) pairs of the store; the slots follow the
\* iteration order of the store and, within an image, ascending position;
\* no slot of an earlier build is left in the mapping.
C15_SlotsAreBijection ==
    IndexJustBuilt =>
        /\ DOMAIN annoy_id_to_image = {ToString(id) : id \in StoreSlots}
        /\ DOMAIN annoy_id_to_descriptor_idx = DOMAIN annoy_id_to_image
        /\ {SlotPair(id) : id \in StoreSlots} = StorePairs
        /\ \A a, b \in StoreSlots : a < b => BuiltBefore(a, b)

\* POST /annoy/rebuild has rebuilt the index of a store of two images, one
\* of them with two descriptors
C15_Witness ==
    /\ Ended("rebuild_annoy_index", 200)
    /\ Len(database_features) = 2
    /\ Cardinality(StorePairs) = 3
    /\ SlotPair(2) = <<database_features[2].image_path, 0>>

\* C16: POST /annoy/rebuild fails (status 400) when the ANN index is
\* disabled or the store holds no descriptors, and then leaves the store,
\* the index and the slot mapping as they were; otherwise it succeeds and
\* the count it reports is the number of descriptors of the store.
C16_RebuildIndexFailsOnEmptyStore ==
    [][operation'.name = "rebuild_annoy_index" =>
          IF ~config.use_annoy \/ StorePairs = {}
          THEN operation'.status = 400 /\ UNCHANGED storeVars
          ELSE /\ operation'.status = 200
               /\ operation'.total = Cardinality(StorePairs)
               /\ UNCHANGED <<database_features, database_metadata>>]_vars

\* POST /annoy/rebuild was refused on a matcher with use_annoy true whose
\* store is empty and whose index exists
C16_Witness ==
    /\ Ended("rebuild_annoy_index", 400)
    /\ config.use_annoy
    /\ StorePairs = {}
    /\ annoy_index # NoIndex

\* lines 640-687 on a store that fits one batch: the only future holds the
\* results of the whole store
search_parallel_one_batch(cfg, features, metadata, query, k) ==
    IF EarlyStopped(calculate_similarity_batch(cfg, metadata, query, features)) # <<>>
    THEN <<Head(EarlyStopped(calculate_similarity_batch(cfg, metadata, query, features)))>>
    ELSE SliceTo(SortByScoreDesc(
             calculate_similarity_batch(cfg, metadata, query, features)), k)

\* lines 453-477 on the matcher m: the lists search_similar_images may
\* return for a query, one for each order in which Phase 2 may take
\* candidates of equal rank
Answers(m, query, k) ==
    IF NoDescriptors(query) THEN {<<>>}
    ELSE IF m.config.use_annoy /\ m.annoy_index # NoIndex
    THEN {search_with_annoy(m.config, m.database_features, m.database_metadata,
                            m.annoy_index, m.annoy_id_to_image, query, k, iteration) :
             iteration \in IterationOrders(CandidateImages(
                 Phase1(m.config, m.annoy_index, m.annoy_id_to_image, query)))}
    ELSE IF m.config.use_parallel_search
    THEN {search_parallel_one_batch(m.config, m.database_features,
                                    m.database_metadata, query, k)}
    ELSE {search_sequential(m.config, m.database_features, m.database_metadata,
                            query, k)}

\* the queries the round trips are compared on
LifecycleQueries == {<<40, 130>>, <<60>>}

\* matchers a and b answer every query alike
SameAnswers(a, b) ==
    \A query \in LifecycleQueries, k \in TopKs :
        Answers(a, query, k) = Answers(b, query, k)

\* save_cache on the running matcher, then load_cache in a new matcher with
\* the same configuration
RoundTrip ==
    load_cache(MatcherOf(config, <<>>, <<>>, Unbuilt), save_cache(Matcher, Disk))

\* C17: save_cache followed by load_cache in a fresh matcher with the same
\* configuration gives back the Descriptor Store (keys, descriptor sets,
\* order) and the slot mapping that was saved, and the loaded matcher
\* answers every query as the saving matcher did.
C17_SaveLoadRoundTrip ==
    pc = "idle" =>
        /\ RoundTrip.ok
        /\ RoundTrip.matcher.database_features = database_features
        /\ HybridCanRun =>
               /\ RoundTrip.matcher.annoy_id_to_image = annoy_id_to_image
               /\ RoundTrip.matcher.annoy_id_to_descriptor_idx
                      = annoy_id_to_descriptor_idx
        /\ SameAnswers(RoundTrip.matcher, Matcher)

\* C18: POST /annoy/rebuild run twice in a row, the store unchanged in
\* between, leaves after the second run the slot mapping and the index of
\* the first run, and the matcher answers every query as after the first.
C18_RebuildIndexTwice ==
    [][(Ended("rebuild_annoy_index", 200)
            /\ operation'.name = "rebuild_annoy_index" /\ operation'.status = 200)
          => /\ annoy_id_to_image' = annoy_id_to_image
             /\ annoy_id_to_descriptor_idx' = annoy_id_to_descriptor_idx
             /\ annoy_index' = annoy_index
             /\ SameAnswers(Matcher', Matcher)]_vars

\* POST /annoy/rebuild has succeeded twice in a row on a store of two images
C18_Witness ==
    /\ Ended("rebuild_annoy_index", 200)
    /\ operation.repeated
    /\ Len(database_features) = 2

\* a file that is missing or cannot be read
Unusable(file) == file.state # "ok"

\* C19: loading fails soft.  load_cache returns False when features_cache.pkl
\* or metadata_cache.json is missing or unreadable, load_annoy_index returns
\* False when annoy_index.ann or annoy_mapping.json is missing or unreadable,
\* whatever files a start finds; and after a start that ended with
\* use_annoy true and a store that is not empty, annoy_index is not None.
C19_LoadFailsSoft ==
    /\ \A disk \in Damaged(Disk) :
          /\ (Unusable(disk.features_cache_file) \/ Unusable(disk.metadata_cache_file))
                 => ~load_cache(FreshMatcher, disk).ok
          /\ (Unusable(disk.annoy_index_file) \/ Unusable(disk.annoy_mapping_file))
                 => ~load_annoy_index(FreshMatcher, disk).ok
    /\ (Ended("startup", 200) /\ config.use_annoy /\ database_features # <<>>)
           => annoy_index # NoIndex

\* load_cache reads features_cache.pkl and then fails on the metadata
HalfLoadable(disk) ==
    disk.features_cache_file.state = "ok" /\ Unusable(disk.metadata_cache_file)

\* the images of directory that yield at least one descriptor, as store
\* entries
Extractable(directory) ==
    {file \in Entries(directory.files) : Len(file.descriptors) > 0}

\* the matcher a start leaves on finding directory and the cache files disk
StartedOn(directory, disk) ==
    load_or_create_database(FreshMatcher, directory, disk, TRUE).matcher

\* C20: when a start reads features_cache.pkl and then finds
\* metadata_cache.json missing or unreadable, the store after the rebuild
\* that follows holds only the entries that rebuild extracted from the
\* collection, and database_features and database_metadata have the same
\* keys.
C20_RebuildAfterHalfLoad ==
    pc = "down" =>
        \A disk \in Damaged(Disk), directory \in Collections :
            (HalfLoadable(disk) /\ directory.exists) =>
                /\ Entries(StartedOn(directory, disk).database_features)
                       = Extractable(directory)
                /\ Keys(StartedOn(directory, disk).database_metadata)
                       = Keys(StartedOn(directory, disk).database_features)



---------------------------------------------------------------------------
(* The rebuilds step by step.  Every handler is a coroutine of the one     *)
(* event loop and the rebuild handlers never await, so a search is served  *)
(* only between two handlers; build_annoy_index works on the attributes of *)
(* the matcher themselves and may raise (add_item and build allocate).     *)

\* lines 231-254 after added descriptors have got their slot: the new
\* index, its trees not built, and the mappings as far as they are filled
HalfBuilt(features, added) ==
    [IndexOver(SubSeq(FlatDescriptors(features), 1, added)) EXCEPT
        !.annoy_index.built = FALSE]

\* the number of descriptors build_annoy_index has added
Added == Cardinality(DOMAIN annoy_index.items)

Rebuilding == pc \in {"rebuild_database", "rebuild_annoy_index"}

InitRebuild ==
    /\ \E use_annoy \in BOOLEAN, files \in CollectionFiles :
          MatcherHolds([DefaultConfig EXCEPT !.use_annoy = use_annoy],
                       ExtractAll(StoreOf(FreshMatcher), files).features,
                       IF use_annoy /\ ExtractAll(StoreOf(FreshMatcher), files).features # <<>>
                       THEN build_annoy_index(
                                ExtractAll(StoreOf(FreshMatcher), files).features)
                       ELSE Unbuilt)
    /\ Idle
    /\ NoRequest
    /\ NoScorerCall
    /\ Deployed

\* POST /database/rebuild up to lines 231-233 of build_annoy_index
RebuildDatabaseBegins(directory) ==
    /\ pc = "idle"
    /\ IF ~directory.exists
       THEN /\ Ends("rebuild_database", 500, 0)
            /\ UNCHANGED <<pc, matcherVars, diskVars>>
       ELSE IF config.use_annoy
               /\ ExtractAll(StoreOf(Matcher), directory.files).processed_count > 0
       THEN /\ BecomesMatcher(
                   WithIndex(WithStore(Matcher,
                                 ExtractAll(StoreOf(Matcher), directory.files)),
                             HalfBuilt(<<>>, 0)))
            /\ pc' = "rebuild_database"
            /\ UNCHANGED <<operation, diskVars>>
       ELSE /\ BecomesMatcher(WithStore(Matcher,
                                  ExtractAll(StoreOf(Matcher), directory.files)))
            /\ BecomesDisk(save_cache(
                   WithStore(Matcher, ExtractAll(StoreOf(Matcher), directory.files)),
                   Disk))
            /\ Ends("rebuild_database", 200,
                    Len(ExtractAll(StoreOf(Matcher), directory.files).features))
            /\ UNCHANGED pc
    /\ collection' = directory
    /\ LifecycleFrame

\* POST /annoy/rebuild up to lines 231-233 of build_annoy_index
RebuildAnnoyIndexBegins ==
    /\ pc = "idle"
    /\ IF ~config.use_annoy \/ Len(database_features) = 0
       THEN /\ Ends("rebuild_annoy_index", 400, 0)
            /\ UNCHANGED <<pc, matcherVars>>
       ELSE /\ BecomesMatcher(WithIndex(Matcher, HalfBuilt(<<>>, 0)))
            /\ pc' = "rebuild_annoy_index"
            /\ UNCHANGED operation
    /\ UNCHANGED <<collection, diskVars>>
    /\ LifecycleFrame

\* lines 242-253: the next descriptor gets its slot
AddItem ==
    /\ Rebuilding
    /\ Added < Len(FlatDescriptors(database_features))
    /\ BecomesMatcher(WithIndex(Matcher, HalfBuilt(database_features, Added + 1)))
    /\ UNCHANGED <<pc, operation, collection, diskVars>>
    /\ LifecycleFrame

\* line 272 and what the handler does after build_annoy_index returns
BuildTrees ==
    /\ Rebuilding
    /\ Added = Len(FlatDescriptors(database_features))
    /\ BecomesMatcher(WithIndex(Matcher, build_annoy_index(database_features)))
    /\ IF pc = "rebuild_database"
       THEN /\ BecomesDisk(save_cache(
                   WithIndex(Matcher, build_annoy_index(database_features)), Disk))
            /\ Ends("rebuild_database", 200, Len(database_features))
       ELSE /\ BecomesDisk(save_annoy_index(
                   WithIndex(Matcher, build_annoy_index(database_features)), Disk))
            /\ Ends("rebuild_annoy_index", 200, Len(FlatDescriptors(database_features)))
    /\ pc' = "idle"
    /\ UNCHANGED collection
    /\ LifecycleFrame

\* add_item or build raises: the handler answers 500 and the matcher keeps
\* what build_annoy_index had done
BuildRaises ==
    /\ Rebuilding
    /\ Ends(pc, 500, 0)
    /\ pc' = "idle"
    /\ UNCHANGED <<matcherVars, collection, diskVars>>
    /\ LifecycleFrame

\* POST /search: the whole handler, between two other handlers
Search(query, k) ==
    /\ pc = "idle"
    /\ \E answer \in Answers(Matcher, query, k) :
          /\ results' = answer
          /\ Ends("search", 200, Len(answer))
    /\ query_descriptors' = query
    /\ top_k' = k
    /\ UNCHANGED <<pc, futures, all_results, pending_future, search_method, hybridVars>>
    /\ UNCHANGED <<matcherVars, scorerVars, httpVars, collection, diskVars>>

NextRebuild ==
    \/ \E directory \in Collections : RebuildDatabaseBegins(directory)
    \/ RebuildAnnoyIndexBegins
    \/ AddItem
    \/ BuildTrees
    \/ BuildRaises
    \/ \E query \in LifecycleQueries, k \in TopKs : Search(query, k)

SpecRebuild == InitRebuild /\ [][NextRebuild]_vars

\* a search is served in this step
SearchServed ==
    /\ pc = "idle" /\ pc' = "idle"
    /\ UNCHANGED matcherVars
    /\ operation'.name = "search"

\* C23: no search reads a half-updated index: the index a search finds is
\* never one that is created but not yet built, and the slot mapping it
\* finds holds every slot of the index.
C23_SearchReadsCompleteState ==
    [][(SearchServed /\ annoy_index # NoIndex) =>
           /\ annoy_index.built
           /\ DOMAIN annoy_id_to_image
                  = {ToString(id) : id \in 0..(Len(FlatDescriptors(database_features)) - 1)}
      ]_vars


---------------------------------------------------------------------------
(* The hybrid search step by step, over collections of more images than   *)
(* Phase 2 refines                                                         *)

\* number of images of a collection that exceeds the cap of Phase 2
CapImages == Phase2Cap + 2

\* image_paths given equal descriptors, one descriptor each
Alike(low, most, lows, best, bests) ==
    [i \in 1..CapImages |->
        [image_path |-> i,
         descriptors |-> IF i \in bests THEN best
                         ELSE IF i \in lows THEN low ELSE most]]

\* collections of CapImages images: three far from the queries at the
\* start or at the end, or none, and one near image, first or last
CapStores ==
    {Alike(Filler, <<130>>, 1..3, <<60>>, {CapImages}),
     Alike(Filler, <<130>>, (CapImages - 3)..(CapImages - 1), <<75>>, {CapImages}),
     Alike(Filler, Filler, {}, <<60>>, {1})}

\* thresholds of the searches over these collections
CapConfigs == {[DefaultConfig EXCEPT !.early_stop_threshold = e] : e \in {50, 98}}

InitCap ==
    /\ \E cfg \in CapConfigs, features \in CapStores : MatcherOver(cfg, features)
    /\ Idle
    /\ NoRequest
    /\ NoScorerCall
    /\ Deployed

\* the image_paths of the store, in store order
StorePaths == [i \in 1..Len(database_features) |-> database_features[i].image_path]

Reverse(s) == [i \in 1..Len(s) |-> s[Len(s) + 1 - i]]

Rotate(s) == SubSeq(s, Len(s) \div 2 + 1, Len(s)) \o SubSeq(s, 1, Len(s) \div 2)

\* the members of S in the order of s
InOrderOf(s, S) ==
    LET Member(x) == x \in S
    IN SelectSeq(s, Member)

\* some of the orders in which the set candidate_images may be iterated
SampledOrders(S) ==
    {InOrderOf(StorePaths, S), InOrderOf(Reverse(StorePaths), S),
     InOrderOf(Rotate(StorePaths), S)}

\* lines 479-526: the strategy is chosen and Phase 1 fills image_scores
HybridPhase1(query, k) ==
    /\ pc = "idle"
    /\ ~NoDescriptors(query)
    /\ config.use_annoy /\ annoy_index # NoIndex
    /\ image_scores' = ImageScores(Phase1(config, annoy_index, annoy_id_to_image, query))
    /\ query_descriptors' = query
    /\ top_k' = k
    /\ search_method' = "hybrid"
    /\ pc' = "phase1"
    /\ UNCHANGED <<futures, all_results, pending_future, results, top_candidates,
                   candidate, refined_results>>
    /\ UNCHANGED <<matcherVars, scorerVars, httpVars, envVars>>

\* lines 529-536
SelectTopCandidates ==
    /\ pc = "phase1"
    /\ \E iteration \in SampledOrders(DOMAIN image_scores) :
          top_candidates' = TopCandidates(image_scores, iteration)
    /\ candidate' = 1
    /\ refined_results' = <<>>
    /\ pc' = "phase2"
    /\ UNCHANGED <<query_descriptors, top_k, futures, all_results, pending_future, results,
                   search_method, image_scores>>
    /\ UNCHANGED <<matcherVars, scorerVars, httpVars, envVars>>

\* lines 544-562 for the candidate the loop is at
RefinedCandidate ==
    HybridResult(database_metadata, top_candidates[candidate],
        Score(query_descriptors, FeaturesGet(database_features, top_candidates[candidate])),
        Mean200(image_scores[top_candidates[candidate]].annoy_scores),
        HybridScore(
            Score(query_descriptors,
                  FeaturesGet(database_features, top_candidates[candidate])),
            Mean200(image_scores[top_candidates[candidate]].annoy_scores)),
        Len(image_scores[top_candidates[candidate]].annoy_scores))

\* lines 537-568: one pass of the loop over top_candidates
RefineCandidate ==
    /\ pc = "phase2"
    /\ candidate <= Len(top_candidates)
    /\ IF FeaturesMissing(database_features, top_candidates[candidate])
          \/ RefinedCandidate.similarity_score < Pct(config.min_threshold)
       THEN UNCHANGED <<pc, results, refined_results>>
       ELSE /\ refined_results' = Append(refined_results, RefinedCandidate)
            /\ IF RefinedCandidate.similarity_score >= Pct(config.early_stop_threshold)
               THEN /\ results' = <<RefinedCandidate>>
                    /\ pc' = "done"
               ELSE UNCHANGED <<pc, results>>
    /\ candidate' = candidate + 1
    /\ UNCHANGED <<query_descriptors, top_k, futures, all_results, pending_future,
                   search_method, image_scores, top_candidates>>
    /\ UNCHANGED <<matcherVars, scorerVars, httpVars, envVars>>

\* lines 570-574
HybridReturn ==
    /\ pc = "phase2"
    /\ candidate > Len(top_candidates)
    /\ results' = SliceTo(SortByScoreDesc(refined_results), top_k)
    /\ pc' = "done"
    /\ UNCHANGED <<query_descriptors, top_k, futures, all_results, pending_future,
                   search_method, hybridVars>>
    /\ UNCHANGED <<matcherVars, scorerVars, httpVars, envVars>>

NextCap ==
    \/ \E query \in LifecycleQueries, k \in TopKs : HybridPhase1(query, k)
    \/ SelectTopCandidates
    \/ RefineCandidate
    \/ HybridReturn

SpecCap == InitCap /\ [][NextCap]_vars

\* the images Phase 2 has computed an exact score for
Scored ==
    {top_candidates[i] :
        i \in {j \in 1..(candidate - 1) :
                  ~FeaturesMissing(database_features, top_candidates[j])}}

Selected == {top_candidates[i] : i \in 1..Len(top_candidates)}

\* C28: Phase 2 of the hybrid search computes an exact score for at most
\* 100 images, all of them among the selected candidates; the selected
\* candidates are distinct, as many as the cap allows, and no candidate of
\* Phase 1 that was not selected has a strictly higher best
\* single-descriptor approximate similarity than a selected one.
C28_Phase2RefinesTopHundred ==
    pc \in {"phase2", "done"} =>
        /\ Cardinality(Scored) <= Phase2Cap
        /\ Scored \subseteq Selected
        /\ Selected \subseteq DOMAIN image_scores
        /\ Len(top_candidates) = Cardinality(Selected)
        /\ Len(top_candidates) = Min(Phase2Cap, Cardinality(DOMAIN image_scores))
        /\ \A unselected \in DOMAIN image_scores \ Selected :
              \A selected \in Selected :
                  image_scores[unselected].annoy_best
                      <= image_scores[selected].annoy_best

\* a hybrid search over more than 100 candidates has scored 100 images and
\* left out candidates whose best approximate similarity is lower than that
\* of a candidate it scored
C28_Witness ==
    /\ pc = "done"
    /\ Cardinality(DOMAIN image_scores) > Phase2Cap
    /\ Cardinality(Scored) = Phase2Cap
    /\ \E unselected \in DOMAIN image_scores \ Selected :
          \E selected \in Scored :
              image_scores[unselected].annoy_best < image_scores[selected].annoy_best


---------------------------------------------------------------------------
(* The uploads of POST /search and POST /searchtest                        *)

\* file.content_type of the uploaded part; None when the part carries no
\* Content-Type header
ContentTypes == {"image/jpeg", "text/plain", None}

\* an upload: its content type, whether cv2.imdecode decodes its bytes, and
\* the descriptors ORB extracts from the decoded image
Uploads ==
    {[content_type |-> type, decodes |-> FALSE, descriptors |-> <<>>] :
        type \in ContentTypes}
    \cup {[content_type |-> type, decodes |-> TRUE, descriptors |-> query] :
             type \in ContentTypes, query \in Queries}

\* file.content_type.startswith('image/')
StartsWithImage(content_type) == content_type = "image/jpeg"

\* the status the request ends with before any search is made, 0 when the
\* search is made.  The test of the content type stands outside the try
\* block: a content type of None raises AttributeError there, which the
\* server answers with 500.  reraised tells whether the handler has the
\* clause "except HTTPException: raise" before "except Exception".
UploadStatus(file, reraised) ==
    IF file.content_type = None THEN 500
    ELSE IF ~StartsWithImage(file.content_type) THEN 400
    ELSE IF ~file.decodes THEN (IF reraised THEN 400 ELSE 500)
    ELSE 0

\* the upload is not an image, or its bytes cannot be decoded as one
InputError(file) == ~StartsWithImage(file.content_type) \/ ~file.decodes

InitUpload ==
    /\ \E a \in BOOLEAN, p \in BOOLEAN, features \in BuildStores :
          MatcherOver([DefaultConfig EXCEPT !.use_annoy = a,
                                            !.use_parallel_search = p], features)
    /\ Idle
    /\ NoRequest
    /\ NoScorerCall
    /\ Deployed

\* what a request leaves of the search it made, if any
UploadFrame ==
    /\ UNCHANGED <<pc, futures, all_results, pending_future, search_method, hybridVars>>
    /\ UNCHANGED <<matcherVars, scorerVars, httpVars, collection, diskVars>>

\* lines 862-896: POST /search
PostSearch(file, k) ==
    /\ pc = "idle"
    /\ IF UploadStatus(file, FALSE) # 0
       THEN /\ Ends("search", UploadStatus(file, FALSE), 0)
            /\ UNCHANGED <<query_descriptors, top_k, results>>
       ELSE /\ \E answer \in Answers(Matcher, file.descriptors, k) :
                  /\ results' = answer
                  /\ Ends("search", 200, Len(answer))
            /\ query_descriptors' = file.descriptors
            /\ top_k' = k
    /\ UploadFrame

\* lines 898-949: POST /searchtest
PostSearchTest(file) ==
    /\ pc = "idle"
    /\ IF UploadStatus(file, TRUE) # 0
       THEN /\ Ends("searchtest", UploadStatus(file, TRUE), 0)
            /\ UNCHANGED <<query_descriptors, top_k, results>>
       ELSE /\ \E answer \in Answers(Matcher, file.descriptors, 1) :
                  /\ results' = answer
                  /\ Ends("searchtest", BestMatchResponse(answer).status, Len(answer))
            /\ query_descriptors' = file.descriptors
            /\ top_k' = 1
    /\ UploadFrame

NextUpload ==
    \/ \E file \in Uploads, k \in TopKs : PostSearch(file, k)
    \/ \E file \in Uploads : PostSearchTest(file)

SpecUpload == InitUpload /\ [][NextUpload]_vars

\* a request with the upload file is served in this step
Uploaded(file) ==
    \/ \E k \in TopKs : PostSearch(file, k)
    \/ PostSearchTest(file)

\* C32: a search request whose upload is not an image, or whose bytes cannot
\* be decoded as an image, is answered with HTTP 400 on /search and on
\* /searchtest, and leaves the store, the index and the configuration
\* unchanged.
C32_InputErrorIsClientError ==
    [][\A file \in Uploads :
          (InputError(file) /\ Uploaded(file)) =>
              /\ operation'.status = 400
              /\ UNCHANGED matcherVars]_vars

---------------------------------------------------------------------------
(* Requests to the configuration endpoint followed by a search: the        *)
(* strategy search_similar_images selects                                  *)

\* the requests that send use_annoy, use_parallel_search or both
StrategyRequests ==
    {req \in Requests :
        req.params # {} /\ req.params \subseteq {"use_annoy", "use_parallel_search"}}

\* the matcher after construction, with the index built or not (a store
\* whose index could not be built or loaded keeps annoy_index = None)
InitSelect ==
    /\ \E features \in StoresOfSize(MaxIndexedImages),
          e \in {50, DefaultConfig.early_stop_threshold}, loaded \in BOOLEAN :
          MatcherHolds([DefaultConfig EXCEPT !.early_stop_threshold = e,
                                             !.batch_size = BatchSizeMin,
                                             !.max_workers = 2],
                       features,
                       IF loaded THEN build_annoy_index(features) ELSE Unbuilt)
    /\ Idle
    /\ NoRequest
    /\ NoScorerCall
    /\ Deployed

\* POST /performance/config served before the search request
SetConfig(req) ==
    /\ pc = "idle"
    /\ Responds(update_performance_config(config, req))
    /\ request' = req
    /\ config_before' = config
    /\ UNCHANGED <<database_features, database_metadata, annoy_index,
                   annoy_id_to_image, annoy_id_to_descriptor_idx>>
    /\ UNCHANGED <<searchVars, hybridVars, scorerVars, envVars>>

NextSelect ==
    \/ \E req \in StrategyRequests : SetConfig(req)
    \/ Next

SpecSelect == InitSelect /\ [][NextSelect]_vars

\* lines 464-472 as the specification words them
SelectedStrategy ==
    IF config.use_annoy /\ annoy_index # NoIndex THEN "hybrid"
    ELSE IF config.use_parallel_search THEN "parallel"
    ELSE "sequential"

\* this step begins a search with a query that has descriptors
SearchBegins == pc = "idle" /\ pc' # "idle" /\ ~NoDescriptors(query_descriptors')

\* the last request to the configuration endpoint set use_annoy to false
UseAnnoySetFalse == Sent(request, "use_annoy") /\ ~request.values.use_annoy

\* C34: the strategy that serves a query with descriptors is the hybrid one
\* iff use_annoy is true and the index is not None, else the parallel one
\* iff use_parallel_search is true, else the sequential one, whatever the
\* query; and the search that follows a request setting use_annoy to false
\* is parallel or sequential even though an index is loaded.
C34_StrategyFromConfigAndIndex ==
    [][SearchBegins =>
          /\ search_method' = SelectedStrategy
          /\ UseAnnoySetFalse => search_method' \in {"parallel", "sequential"}]_vars

\* a search served by the parallel or the sequential strategy over a loaded
\* index, right after use_annoy went from true to false
C34_Witness ==
    /\ pc \in {"done", "as_completed"}
    /\ query_descriptors # <<>>
    /\ search_method \in {"parallel", "sequential"}
    /\ annoy_index # NoIndex
    /\ UseAnnoySetFalse /\ config_before.use_annoy

---------------------------------------------------------------------------
(* The largest score: the scorer applied to any two descriptor sets, and   *)
(* the exact strategies under early_stop_threshold at and above 0.95       *)

\* final_score of lines 436-445 before min(final_score, 1.0)
FinalScoreBeforeClamp(matches, total_features) ==
    QualityPart(Len(MatchesBelow(matches, ExcellentDistance)),
                Len(MatchesBelow(matches, GoodDistance)),
                Len(MatchesBelow(matches, DecentDistance)), total_features)
    + DistancePart(MatchesBelow(matches, GoodDistance))
    + CoveragePart(Len(MatchesBelow(matches, DecentDistance)), total_features)
    + ExcellentBonus(Len(MatchesBelow(matches, ExcellentDistance)), total_features)

\* early_stop_threshold at the largest score and above it
HighThresholds == {95, 96, DefaultConfig.early_stop_threshold, 100}

InitBound ==
    /\ \E p \in BOOLEAN, e \in HighThresholds,
          features \in StoresOfSize(MaxIndexedImages) \cup StoresOfSize(MaxImages) :
          /\ Len(features) > MaxIndexedImages => features[BatchSizeMin].descriptors = Filler
          /\ MatcherHolds([DefaultConfig EXCEPT !.use_annoy = FALSE,
                                                !.use_parallel_search = p,
                                                !.batch_size = BatchSizeMin,
                                                !.max_workers = 2,
                                                !.early_stop_threshold = e],
                          features, Unbuilt)
    /\ Idle
    /\ NoRequest
    /\ NoScorerCall
    /\ Deployed

\* calculate_similarity called on two descriptor sets
ScorerCall(descriptors1, descriptors2) ==
    /\ pc = "idle"
    /\ query_descriptors' = descriptors1
    /\ db_descriptors' = descriptors2
    /\ similarity' = calculate_similarity(descriptors1, descriptors2)
    /\ pc' = "done"
    /\ UNCHANGED <<top_k, futures, all_results, pending_future, results, search_method,
                   hybridVars>>
    /\ UNCHANGED <<matcherVars, httpVars, envVars>>

NextBound ==
    \/ \E descriptors1, descriptors2 \in DescriptorSets :
          ScorerCall(descriptors1, descriptors2)
    \/ \E query \in Queries, k \in TopKs : SearchEmptyQuery(query, k)
    \/ \E query \in Queries, k \in TopKs : SearchSequential(query, k)
    \/ \E query \in Queries, k \in TopKs : SearchParallelSubmit(query, k)
    \/ \E b \in 1..Len(futures) : WorkerStart(b)
    \/ \E b \in 1..Len(futures) : WorkerFinish(b)
    \/ \E b \in 1..Len(futures) : AsCompletedEarlyStop(b)
    \/ CancelPending
    \/ \E b \in 1..Len(futures) : AsCompletedExtend(b)
    \/ ParallelReturn
    \/ ExecutorShutdown

SpecBound == InitBound /\ [][NextBound]_vars

\* the scorer was called on two sets that both hold descriptors
ScorerCalled == Done /\ query_descriptors # <<>> /\ db_descriptors # <<>>

\* some result or batch result carries early_stopped
SomeEarlyStop ==
    \/ pc \in {"cancelling", "shutdown"}
    \/ \E n \in 1..Len(results) : results[n].early_stopped
    \/ \E b \in 1..Len(futures) : EarlyStopped(futures[b].result) # <<>>

\* C36: calculate_similarity never returns more than 0.95, the sum it
\* clamps never exceeds 1.0, so that the clamp changes nothing; and under
\* an early_stop_threshold above 0.95 (0.98 by default) the sequential and
\* the parallel search never stop early.
C36_ScoreAtMost95NoEarlyStop ==
    /\ similarity <= Pct(95)
    /\ \A i \in StorePositions : query_descriptors # <<>> => TrueScore(i) <= Pct(95)
    /\ ScorerCalled =>
          /\ FinalScoreBeforeClamp(SortByDistance(MatchesNow), TotalFeaturesNow) <= ScoreDen
          /\ FinalScoreBeforeClamp(SortByDistance(MatchesNow), TotalFeaturesNow) = similarity
    /\ config.early_stop_threshold > 95 => ~SomeEarlyStop

\* a parallel search under early_stop_threshold 0.96 returned an image that
\* scores 0.95, the largest score, without an early stop
C36_Witness ==
    /\ Done /\ search_method = "parallel"
    /\ config.early_stop_threshold = 96
    /\ Len(results) >= 1
    /\ results[1].similarity_score = Pct(95)
    /\ ~results[1].early_stopped

---------------------------------------------------------------------------
(* Sequences of requests to the configuration endpoint, from the defaults  *)

\* values just below, at and just above the ends of the accepted ranges
EdgeValues ==
    [early_stop_threshold |-> {9, 10, 101},
     min_threshold |-> {-1, 0, 101},
     max_workers |-> {0, 1, 17},
     use_parallel_search |-> BOOLEAN,
     batch_size |-> {9, BatchSizeMin, 201},
     use_annoy |-> BOOLEAN,
     annoy_search_k |-> {9, 10, 1001}]

EdgeValuesSent(params, name) ==
    IF name \in params THEN EdgeValues[name] ELSE {AbsentValues[name]}

\* the requests that send at most MaxFields parameters, each with a value
\* at an edge of its range
EdgeRequests ==
    UNION {{RequestOf(params, values) :
               values \in [early_stop_threshold : EdgeValuesSent(params, "early_stop_threshold"),
                           min_threshold : EdgeValuesSent(params, "min_threshold"),
                           max_workers : EdgeValuesSent(params, "max_workers"),
                           use_parallel_search : EdgeValuesSent(params, "use_parallel_search"),
                           batch_size : EdgeValuesSent(params, "batch_size"),
                           use_annoy : EdgeValuesSent(params, "use_annoy"),
                           annoy_search_k : EdgeValuesSent(params, "annoy_search_k")]} :
           params \in {ps \in SUBSET FieldNames : Cardinality(ps) <= MaxFields}}

\* the matcher after construction: the defaults of lines 34-47
InitSequence ==
    /\ \E features \in StoresOfSize(1) :
          /\ features[1].descriptors = Filler
          /\ MatcherOver(DefaultConfig, features)
    /\ Idle
    /\ NoRequest
    /\ NoScorerCall
    /\ Deployed

NextSequence == \E req \in EdgeRequests : SetConfig(req)

SpecSequence == InitSequence /\ [][NextSequence]_vars

\* C37: after any sequence of accepted and rejected requests to the
\* configuration endpoint, starting from the defaults, early_stop_threshold
\* is within [0.1, 1.0], min_threshold within [0.0, 1.0], max_workers within
\* [1, 16], batch_size within [10, 200] and annoy_search_k within [10, 1000].
C37_ConfigStaysInRange ==
    /\ 10 <= config.early_stop_threshold /\ config.early_stop_threshold <= 100
    /\ 0 <= config.min_threshold /\ config.min_threshold <= 100
    /\ 1 <= config.max_workers /\ config.max_workers <= 16
    /\ 10 <= config.batch_size /\ config.batch_size <= 200
    /\ 10 <= config.annoy_search_k /\ config.annoy_search_k <= 1000

\* a rejected request changed one field, on a configuration that earlier
\* requests had moved to the low end of every range
C37_Witness ==
    /\ response.status = 400
    /\ config # config_before
    /\ config.early_stop_threshold = 10 /\ config.min_threshold = 0
    /\ config.max_workers = 1 /\ config.batch_size = BatchSizeMin
    /\ config.annoy_search_k = 10

---------------------------------------------------------------------------
(* What a search leaves alone, checked under SpecSelect, where requests to *)
(* the configuration endpoint come before the search                       *)

\* a step of a search request: search_similar_images begins, goes on or
\* returns, or /searchtest answers
SearchStep == pc # "idle" \/ pc' # "idle"

\* C38: a search, by any strategy, stopped early or not, for a query with or
\* without descriptors, leaves the Descriptor Store, its metadata, the ANN
\* index, the slot mappings and every configuration field unchanged.
C38_SearchChangesNothing ==
    [][SearchStep =>
          /\ UNCHANGED <<database_features, database_metadata>>
          /\ UNCHANGED <<annoy_index, annoy_id_to_image, annoy_id_to_descriptor_idx>>
          /\ \A name \in FieldNames : config'[name] = config[name]]_vars

\* a parallel search that stopped early returned, over a loaded index, after
\* a request had changed the configuration
C38_Witness ==
    /\ Done /\ search_method = "parallel"
    /\ Len(results) = 1 /\ results[1].early_stopped
    /\ annoy_index # NoIndex
    /\ response.status = 200 /\ config # config_before

===========================================================================
